---- MODULE Spec2Model ----
(***************************************************************************)
(* A model of the uniproxy forward proxy framework: the routing table of   *)
(* RoutingProxy, the CONNECT / HTTP handlers of BaseProxy with hedged      *)
(* outbound connects, connection tracking, error logging and shutdown,     *)
(* and the certificate cache of SslCertStore.                              *)
(***************************************************************************)
EXTENDS Integers, Sequences, FiniteSets, TLC

(***************************************************************************)
(* Bounds of the model.                                                    *)
(***************************************************************************)
MaxRoutes == 2
MaxHostLen == 2
MaxRequests == 2
MaxRetryAttempts == 1
\* bound on the outbound connect attempts of one run, over all requests
MaxTotalAttempts == 4
\* bound on the number of onError calls of one run
MaxErrors == 3
\* largest certCacheMaxEntries and certTtlDays of a certificate store
MaxCacheEntries == 2
MaxTtlDays == 1
\* bounds on the calls of a certificate store and on the advances of its clock
MaxCalls == 4
MaxTicks == 2
\* calls of start() on one proxy
MaxStarts == 3
\* chunks that arrive on one socket of a tunnel
MaxChunks == 2

(***************************************************************************)
(* Values.                                                                 *)
(***************************************************************************)
\* ProxyUpstream | null ; the upstream descriptors are opaque values here
Null == "null"
Upstreams == {"upA", "upB"}
UpstreamOrNull == Upstreams \cup {Null}

\* outcome of a call that throws out of `new RegExp(...)`
SyntaxError == "SyntaxError"

\* characters of host authorities; "A" is the upper-case form of "a"
Chars == {"a", "A", "b"}

Lower(c) == IF c = "A" THEN "a" ELSE c

\* host strings: non-empty character sequences
Hosts == UNION {[1..n -> Chars] : n \in 1..MaxHostLen}

\* hostPattern strings, as token sequences of a small regular-expression
\* language: "^" and "$" are anchors, "(" is an unterminated group (the
\* pattern does not compile), every other token is a literal character
HostPatterns == {<<"a">>, <<"^", "b">>, <<"^", "a", "$">>, <<"(">>}

\* JavaScript's undefined, as the label of a stored route
Undefined == "undefined"

\* how the caller of insertRoute supplies the optional label
LabelSpecs == {"absent", Undefined, "x"}

VARIABLES
    routes,            \* RoutingProxy.routes
    defaultUpstream,   \* BaseProxy.defaultUpstream
    matchHost,         \* argument of matchRoute, when it was the latest call
    matchResult,       \* what that call returned (or threw)
    setupRoutes,       \* the routes the beforeEach hook of the routing tests inserts
    original,          \* the routing table the first run of that hook left, and
                       \* whether the hook has run again
    tableCall          \* the latest call that wrote the routing table

routeVars == <<routes, defaultUpstream, matchHost, matchResult, setupRoutes, original,
               tableCall>>

VARIABLES
    connectRetryAttempts, \* BaseProxy.connectRetryAttempts
    clients,              \* number of inbound requests the environment sends
    inPartition,          \* per request: the X-Partition-Id header its client sends
    trackedConnections,   \* BaseProxy.trackedConnections: connectionId -> Connection
    kind,                 \* per request: "none", "CONNECT" or "HTTP"
    url,                  \* per request: req.url
    pc,                   \* per request: where its handler is suspended
    upstream,             \* per request: what matchRoute returned
    events,               \* per request: what the handler did, in order
    clientOut,            \* per request: status lines written to the client
    clientSock,           \* per request: state of the inbound socket
    timers,               \* sslConnectWithRetry: timers[i]
    pending,              \* sslConnectWithRetry: pending
    resolved,             \* sslConnectWithRetry: resolved
    promise,              \* the promise sslConnectWithRetry returned
    promiseVal,           \* the attempt whose connection / error settled it
    emitted,              \* attempt numbers of the outboundConnect events
    att,                  \* per attempt: idle, inflight, ok or failed
    attErr,               \* per attempt: the error its connect failed with
    upStatus,             \* per attempt: status code of the upstream's CONNECT reply
    sock,                 \* per attempt: state of the socket of its Connection
    rejectErr,            \* per request: the error the promise was rejected with
    authErr,              \* per request: the error the authenticate hook threw
    upHeader,             \* per request: X-Connection-Id of the upstream reply
                          \* the returned Connection was built from
    connId,               \* per request: connectionId of the Connection handed to onConnect
    firstSucc,            \* per request: first attempt whose connect succeeded
    lastFail,             \* per request: attempt that failed most recently
    outHeaders,           \* per attempt: headers of its outbound CONNECT request
    connPartition,        \* per request: partitionId of the Connection handed to onConnect
    elapsed               \* per attempt: connectTimeout has passed since its connect
                          \* began, and the connect had not been established by then

reqVars == <<kind, url, pc, upstream, events, clientOut, clientSock>>
retryVars == <<timers, pending, resolved, promise, promiseVal, emitted>>
attVars == <<att, attErr, upStatus, sock, rejectErr, connId, firstSucc, lastFail>>
obsVars == <<authErr, upHeader>>
configVars == <<connectRetryAttempts, clients, inPartition>>
hdrVars == <<outHeaders, connPartition>>
engineVars == <<configVars, trackedConnections, reqVars, retryVars, attVars, obsVars, hdrVars,
                elapsed>>

VARIABLES
    muteErrorCodes,       \* BaseProxy.muteErrorCodes
    warnErrorCodes,       \* BaseProxy.warnErrorCodes
    errors,               \* error.code of the errors passed to onError, in order
    logged                \* calls of the logger: <<level, error.code>>, in order

logVars == <<muteErrorCodes, warnErrorCodes, errors, logged>>

VARIABLES
    server,               \* BaseProxy.server: null or the http server
    clientSockets,        \* BaseProxy.clientSockets, a socket named by its request
    shutdownForce         \* the latest shutdown call: none, forced or graceful

lifeVars == <<server, clientSockets, shutdownForce>>

VARIABLES
    certCacheMaxEntries,  \* SslBumpConfig.certCacheMaxEntries
    certTtlDays,          \* SslCertStore.certTtlDays
    certPemCache,         \* SslCertStore.certPemCache, most recently used entry first
    now,                  \* Date.now(), in milliseconds since the store was constructed
    clockDrift,           \* by how much Date.now() may advance between two reads of one call
    issued,               \* the certificateIssued events, in order
    hostname,             \* argument of the latest call of the store
    ret,                  \* what that call returned
    lookups,              \* the keys that call looked up in the cache, in order
    lastUse,              \* per key: the latest call that read or stored its entry
    calls,                \* number of calls of the store
    ticks                 \* number of advances of the clock

certVars == <<certCacheMaxEntries, certTtlDays, certPemCache, now, clockDrift, issued,
              hostname, ret, lookups, lastUse, calls, ticks>>

VARIABLES
    rejectUnauthorized,   \* tls.connect option of negotiateTls (default of the process)
    bumpPc,               \* per request: where SslBumpProxy.onConnect is suspended
    bumpUpstream,         \* per request: what matchRoute returned
    bumpEvents,           \* per request: what the handler did, in order
    bumpOut,              \* per request: status lines written on the inbound socket
    bumpSock,             \* per request: state of the inbound socket
    tlsRemote,            \* per request: state of the TLS socket to the target
    authorized,           \* per request: tlsRemoteSocket.authorized at secureConnect
    bumpErr               \* per request: the error the handler caught

bumpVars == <<rejectUnauthorized, bumpPc, bumpUpstream, bumpEvents, bumpOut, bumpSock,
              tlsRemote, authorized, bumpErr>>

VARIABLES
    callerUpstream,       \* per caller: the upstream object the caller holds
    connectionError       \* per caller: the connection error built from that object

detailVars == <<callerUpstream, connectionError>>

VARIABLES
    httpServers,          \* the servers start() has created, in order: state and port
    serverRef,            \* which of them this.server refers to; 0 for null
    startResolved,        \* start() has resolved and shutdown() was not called since
    boundPort,            \* the port the server of the latest start() is bound to
    overlapped            \* some start() was called while a server was closing

startVars == <<httpServers, serverRef, startResolved, boundPort, overlapped>>

VARIABLES
    remoteConnectionsMap, \* loopback revision: target host -> the TLS socket stored for it
    loopPc,               \* per tunnel: where onConnect of that revision is
    loopHost,             \* per tunnel: the target host of its CONNECT
    loopRemote,           \* per tunnel: state of the TLS socket negotiated for it
    forwardedOver         \* per tunnel: for each of its decrypted requests, the socket
                          \* it was forwarded over and the state of that socket

loopVars == <<remoteConnectionsMap, loopPc, loopHost, loopRemote, forwardedOver>>

VARIABLES
    tlsSockets            \* per bumped tunnel and side: the TLS socket of that side

VARIABLES
    tunnelPc,             \* per tunnel: "new", "established" or "closed"
    tunnelHead,           \* per tunnel: the `head` argument of its 'connect' event
    received,             \* per tunnel and direction: the chunks that have arrived on
                          \* the source socket since the tunnel was established
    delivered             \* per tunnel and direction: the chunks written to the
                          \* destination socket

tunnelVars == <<tunnelPc, tunnelHead, received, delivered>>

extVars == <<detailVars, startVars, loopVars, tlsSockets, tunnelVars>>

\* what the handlers of the engine and of the routing table leave alone
sideVars == <<logVars, lifeVars, certVars, bumpVars, extVars>>
outerVars == <<routeVars, sideVars>>
\* what a handler that reports an error to onError leaves alone
quietVars == <<routeVars, muteErrorCodes, warnErrorCodes, lifeVars, certVars, bumpVars,
               extVars>>
vars == <<routeVars, engineVars, sideVars>>

Reqs == 1..MaxRequests
Attempts == 0..MaxRetryAttempts

\* connection ids: Math.random().toString(36).substring(2) yields a fresh id
\* per call; an upstream proxy may put any id in its X-Connection-Id header
\* errors: the class name and the status property (NoStatus: none)
NoStatus == 0
NoError == <<"none", NoStatus>>
NoId == <<"none", 0, 0>>
FreshId(r, i) == <<"fresh", r, i>>
FreshIds == {FreshId(r, i) : r \in Reqs, i \in Attempts}
UpstreamIds == {<<"up", 1, 0>>, <<"up", 2, 0>>}

\* no outbound CONNECT request (a request has a host header at least)
NoHeaders == <<>>


(***************************************************************************)
(* The engine right after construction: no request has arrived.            *)
(***************************************************************************)
EngineIdle ==
    /\ trackedConnections = <<>>
    /\ kind = [r \in Reqs |-> "none"]
    /\ url = [r \in Reqs |-> <<>>]
    /\ pc = [r \in Reqs |-> "new"]
    /\ upstream = [r \in Reqs |-> Null]
    /\ events = [r \in Reqs |-> <<>>]
    /\ clientOut = [r \in Reqs |-> <<>>]
    /\ clientSock = [r \in Reqs |-> "open"]
    /\ timers = [r \in Reqs |-> [i \in Attempts |-> "none"]]
    /\ pending = [r \in Reqs |-> 0]
    /\ resolved = [r \in Reqs |-> FALSE]
    /\ promise = [r \in Reqs |-> "none"]
    /\ promiseVal = [r \in Reqs |-> -1]
    /\ emitted = [r \in Reqs |-> <<>>]
    /\ att = [r \in Reqs |-> [i \in Attempts |-> "idle"]]
    /\ attErr = [r \in Reqs |-> [i \in Attempts |-> NoError]]
    /\ upStatus = [r \in Reqs |-> [i \in Attempts |-> NoStatus]]
    /\ rejectErr = [r \in Reqs |-> NoError]
    /\ authErr = [r \in Reqs |-> NoError]
    /\ upHeader = [r \in Reqs |-> NoId]
    /\ sock = [r \in Reqs |-> [i \in Attempts |-> "none"]]
    /\ connId = [r \in Reqs |-> NoId]
    /\ firstSucc = [r \in Reqs |-> -1]
    /\ lastFail = [r \in Reqs |-> -1]
    /\ outHeaders = [r \in Reqs |-> [i \in Attempts |-> NoHeaders]]
    /\ connPartition = [r \in Reqs |-> Undefined]
    /\ elapsed = [r \in Reqs |-> [i \in Attempts |-> FALSE]]

(***************************************************************************)
(* SslCertStore: the cache of temporary certificates.                      *)
(***************************************************************************)
HOUR == 60 * 60 * 1000
DAY == 24 * HOUR

\* hostnames, as character sequences: "", "b", "a.b", "c.b"
CertHostnames == {<<>>, <<"b">>, <<"a", ".", "b">>, <<"c", ".", "b">>}

\* how far the clock advances in one step
TickSteps == {HOUR, DAY - HOUR}

\* a clock that does not advance during a call
NoDrift == {0}

\* a clock that may advance by a millisecond between two reads of a call
ClockDrift == {0, 1}

\* the hostnames of the calls made while the clock drifts: "b", "a.b"
ClockHostnames == {<<"b">>, <<"a", ".", "b">>}

\* no certificate: the undefined a cache lookup returns on a miss
NoCert == [none |-> TRUE]

\* position of the first "." of a hostname, 0 when it has none
FirstDot(h) ==
    IF \E i \in 1..Len(h) : h[i] = "."
    THEN CHOOSE i \in 1..Len(h) : h[i] = "." /\ \A j \in 1..(i - 1) : h[j] # "."
    ELSE 0

\* hostname.split('.').slice(0).join('.'): the hostname itself
ParentDomainWhole(h) == h

\* hostname.split('.').slice(1).join('.'): what follows the first ".",
\* the empty string when there is none
ParentDomain(h) ==
    IF FirstDot(h) = 0 THEN <<>> ELSE SubSeq(h, FirstDot(h) + 1, Len(h))

\* lru-cache: position of the entry of a key, 0 when it has none
LruIndex(cache, key) ==
    IF \E i \in 1..Len(cache) : cache[i].key = key
    THEN CHOOSE i \in 1..Len(cache) : cache[i].key = key
    ELSE 0

\* the sequence without its i-th element
Without(seq, i) == SubSeq(seq, 1, i - 1) \o SubSeq(seq, i + 1, Len(seq))

\* lru-cache isStale(self, hit) at time t
isStale(hit, maxAge, t) == maxAge # 0 /\ t - hit.now > maxAge

\* lru-cache get(key) at time t: the value it returns
LruGetValue(cache, key, maxAge, t) ==
    LET i == LruIndex(cache, key)
    IN  IF i = 0 \/ isStale(cache[i], maxAge, t) THEN NoCert ELSE cache[i].value

\* lru-cache get(key) at time t: the cache after it; a stale entry is
\* deleted, a live one becomes the most recently used, its age unchanged
LruGet(cache, key, maxAge, t) ==
    LET i == LruIndex(cache, key)
    IN  IF i = 0 THEN cache
        ELSE IF isStale(cache[i], maxAge, t) THEN Without(cache, i)
        ELSE <<cache[i]>> \o Without(cache, i)

\* a cache that evicts the entry used most recently before the new one
LruSetEvictNewest(cache, key, value, max, t) ==
    LET i == LruIndex(cache, key)
        entry == [key |-> key, value |-> value, now |-> t]
        added == IF i = 0 THEN <<entry>> \o cache ELSE <<entry>> \o Without(cache, i)
    IN  IF Len(added) > max
        THEN <<entry>> \o SubSeq(added, Len(added) - max + 2, Len(added))
        ELSE added

\* lru-cache set(key, value) at time t, with max >= 1 entries of length 1:
\* the entry becomes the most recently used, then trim() deletes entries
\* from the least recently used end while there are more than max
LruSet(cache, key, value, max, t) ==
    LET i == LruIndex(cache, key)
        entry == [key |-> key, value |-> value, now |-> t]
        added == IF i = 0 THEN <<entry>> \o cache ELSE <<entry>> \o Without(cache, i)
    IN  SubSeq(added, 1, IF Len(added) > max THEN max ELSE Len(added))

\* maxAge of the cache
MaxAge == certTtlDays * DAY - HOUR

\* the certificate createCertificate(hostname) builds and signs, Date.now()
\* being t1 at its first read and t2 at its second; the random serial
\* number is named by the number of certificates issued before
Certificate(h, serial, t1, t2) ==
    [commonName |-> h,
     serialNumber |-> serial,
     notBefore |-> t1 - DAY,
     notAfter |-> t2 + certTtlDays * DAY,
     issuer |-> "caCert.subject",
     altNames |-> <<h, <<"*", ".">> \o h>>]

\* the event createCertificate emits
CertificateIssued(h, pem) == [hostname |-> h, pem |-> pem]

\* a store right after construction
CertIdle ==
    /\ certCacheMaxEntries = 1
    /\ certTtlDays = 1
    /\ certPemCache = <<>>
    /\ now = 0
    /\ clockDrift = NoDrift
    /\ issued = <<>>
    /\ hostname = <<>>
    /\ ret = NoCert
    /\ lookups = <<>>
    /\ lastUse = [h \in CertHostnames |-> 0]
    /\ calls = 0
    /\ ticks = 0

\* the body of getCertificate(hostname); the clock may advance between the
\* reads of Date.now() by createCertificate and by the cache
CertLookup(h) ==
    LET parentDomain == ParentDomain(h)
        own == LruGetValue(certPemCache, h, MaxAge, now)
        afterOwn == LruGet(certPemCache, h, MaxAge, now)
        parent == LruGetValue(afterOwn, parentDomain, MaxAge, now)
        afterParent == LruGet(afterOwn, parentDomain, MaxAge, now)
    IN  /\ calls < MaxCalls
        /\ calls' = calls + 1
        /\ hostname' = h
        /\ IF own # NoCert
           THEN /\ ret' = own
                /\ lookups' = <<h>>
                /\ lastUse' = [lastUse EXCEPT ![h] = calls + 1]
                /\ certPemCache' = afterOwn
                /\ UNCHANGED <<issued, now>>
           ELSE IF parent # NoCert
           THEN /\ ret' = parent
                /\ lookups' = <<h, parentDomain>>
                /\ lastUse' = [lastUse EXCEPT ![parentDomain] = calls + 1]
                /\ certPemCache' = afterParent
                /\ UNCHANGED <<issued, now>>
           ELSE \E d1 \in clockDrift, d2 \in clockDrift :
                  LET cert == Certificate(h, Len(issued) + 1, now, now + d1)
                  IN  /\ issued' = Append(issued, CertificateIssued(h, cert))
                      /\ certPemCache' = LruSet(afterParent, h, cert, certCacheMaxEntries,
                                                now + d1 + d2)
                      /\ now' = now + d1 + d2
                      /\ ret' = cert
                      /\ lookups' = <<h, parentDomain>>
                      /\ lastUse' = [lastUse EXCEPT ![h] = calls + 1]
        /\ UNCHANGED <<certCacheMaxEntries, certTtlDays, clockDrift, ticks>>

\* no connection error has been constructed
DetailIdle ==
    /\ callerUpstream = <<>>
    /\ connectionError = <<>>

\* start() has not been called
StartIdle ==
    /\ httpServers = <<>>
    /\ serverRef = 0
    /\ startResolved = FALSE
    /\ boundPort = 0
    /\ overlapped = FALSE

\* SslBumpProxy of the loopback revision right after construction
LoopIdle ==
    /\ remoteConnectionsMap = [h \in {} |-> 0]
    /\ loopPc = <<>>
    /\ loopHost = <<>>
    /\ loopRemote = <<>>
    /\ forwardedOver = <<>>

\* the two sides of a bumped tunnel
Sides == {"client", "remote"}
Other(side) == IF side = "client" THEN "remote" ELSE "client"

\* a TLS socket both of whose directions are open
OpenSocket == [readable |-> "open", writable |-> "open", destroyed |-> FALSE, closed |-> FALSE]

\* no TLS socket of a tunnel has seen an event
BridgeIdle == tlsSockets = [r \in Reqs |-> [side \in Sides |-> OpenSocket]]

\* the tunnels that are followed
Tunnels == {1, 2}

\* the two directions of a tunnel: client to remote, remote to client
Directions == {"up", "down"}

\* no CONNECT has arrived
TunnelIdle ==
    /\ tunnelPc = [r \in Tunnels |-> "new"]
    /\ tunnelHead = [r \in Tunnels |-> <<>>]
    /\ received = [r \in Tunnels |-> [d \in Directions |-> <<>>]]
    /\ delivered = [r \in Tunnels |-> [d \in Directions |-> <<>>]]

ExtIdle ==
    /\ DetailIdle
    /\ StartIdle
    /\ LoopIdle
    /\ BridgeIdle
    /\ TunnelIdle
    /\ TunnelIdle

\* SslBumpProxy right after construction: no CONNECT has arrived
RejectUnauthorizedDefault == TRUE
BumpIdle ==
    /\ rejectUnauthorized = RejectUnauthorizedDefault
    /\ bumpPc = [r \in Reqs |-> "new"]
    /\ bumpUpstream = [r \in Reqs |-> Null]
    /\ bumpEvents = [r \in Reqs |-> <<>>]
    /\ bumpOut = [r \in Reqs |-> <<>>]
    /\ bumpSock = [r \in Reqs |-> "open"]
    /\ tlsRemote = [r \in Reqs |-> "none"]
    /\ authorized = [r \in Reqs |-> "unknown"]
    /\ bumpErr = [r \in Reqs |-> NoError]

\* getCertificate that mints a certificate and stores nothing
getCertificateNoStore(h) ==
    LET parentDomain == ParentDomain(h)
        own == LruGetValue(certPemCache, h, MaxAge, now)
        afterOwn == LruGet(certPemCache, h, MaxAge, now)
        parent == LruGetValue(afterOwn, parentDomain, MaxAge, now)
        afterParent == LruGet(afterOwn, parentDomain, MaxAge, now)
    IN  /\ calls < MaxCalls
        /\ calls' = calls + 1
        /\ hostname' = h
        /\ IF own # NoCert
           THEN /\ ret' = own
                /\ lookups' = <<h>>
                /\ lastUse' = [lastUse EXCEPT ![h] = calls + 1]
                /\ certPemCache' = afterOwn
                /\ UNCHANGED <<issued, now>>
           ELSE IF parent # NoCert
           THEN /\ ret' = parent
                /\ lookups' = <<h, parentDomain>>
                /\ lastUse' = [lastUse EXCEPT ![parentDomain] = calls + 1]
                /\ certPemCache' = afterParent
                /\ UNCHANGED <<issued, now>>
           ELSE \E d1 \in clockDrift, d2 \in clockDrift :
                  LET cert == Certificate(h, Len(issued) + 1, now, now + d1)
                  IN  /\ issued' = Append(issued, CertificateIssued(h, cert))
                      /\ certPemCache' = afterParent
                      /\ now' = now + d1 + d2
                      /\ ret' = cert
                      /\ lookups' = <<h, parentDomain>>
                      /\ lastUse' = [lastUse EXCEPT ![h] = calls + 1]
        /\ UNCHANGED <<certCacheMaxEntries, certTtlDays, clockDrift, ticks, routeVars, engineVars,
                       logVars, lifeVars, bumpVars, extVars>>

\* getCertificate(hostname), called on the store
getCertificate(h) ==
    /\ CertLookup(h)
    /\ UNCHANGED <<routeVars, engineVars, logVars, lifeVars, bumpVars, extVars>>

\* time passes
Tick(step) ==
    /\ ticks < MaxTicks
    /\ ticks' = ticks + 1
    /\ now' = now + step
    /\ UNCHANGED <<certCacheMaxEntries, certTtlDays, clockDrift, certPemCache, issued,
                   hostname, ret, lookups, lastUse, calls, routeVars, engineVars, logVars,
                   lifeVars, bumpVars, extVars>>

(***************************************************************************)
(* BaseProxy: the http server and the inbound sockets.                     *)
(***************************************************************************)
\* the http server of a proxy that was started
Listening == "listening"

\* right after construction
LifeIdle ==
    /\ server = Null
    /\ clientSockets = {}
    /\ shutdownForce = "none"

\* after start() has resolved
Started ==
    /\ server = Listening
    /\ clientSockets = {}
    /\ shutdownForce = "none"

isRunning == server # Null

(***************************************************************************)
(* BaseProxy.onError: classification of errors by their code.              *)
(***************************************************************************)
\* DEFAULT_PROXY_CONFIG
DefaultMuteErrorCodes ==
    {"EPIPE", "ERR_STREAM_PREMATURE_CLOSE", "ERR_STREAM_DESTROYED", "ECONNRESET", "EINVAL"}
DefaultWarnErrorCodes == {"ENOTCONN", "ERR_STREAM_WRITE_AFTER_END", "EPROTO"}

\* error.code of the errors handed to onError; Undefined: the error has no code
ErrorCodes == {"EPIPE", "ENOTCONN", "ETIMEDOUT"}

\* the logger right after construction, with the default configuration
LogIdle ==
    /\ muteErrorCodes = DefaultMuteErrorCodes
    /\ warnErrorCodes = DefaultWarnErrorCodes
    /\ errors = <<>>
    /\ logged = <<>>

\* Array.prototype.includes on a list of strings
Includes(list, x) == x \in list

\* onError that looks at warnErrorCodes before muteErrorCodes
onErrorWarnFirst(log, mute, warn, code) ==
    IF Includes(warn, code) THEN Append(log, <<"warn", code>>)
    ELSE IF Includes(mute, code) THEN log
    ELSE Append(log, <<"error", code>>)

\* onError(error, details): the calls of the logger after it, given those
\* before it
onError(log, mute, warn, code) ==
    IF Includes(mute, code) THEN log
    ELSE IF Includes(warn, code) THEN Append(log, <<"warn", code>>)
    ELSE Append(log, <<"error", code>>)

OnErrorCall(code) ==
    /\ Len(errors) < MaxErrors
    /\ errors' = Append(errors, code)
    /\ logged' = onError(logged, muteErrorCodes, warnErrorCodes, code)
    /\ UNCHANGED <<muteErrorCodes, warnErrorCodes, routeVars, engineVars, lifeVars, certVars,
                   bumpVars, extVars>>

\* this.onError(error, ...) in the catch block of a handler
Report(code) ==
    /\ errors' = Append(errors, code)
    /\ logged' = onError(logged, muteErrorCodes, warnErrorCodes, code)

\* error.code: the errors of sockets and of `new URL` carry one, the errors
\* of this package and of the hooks do not
CodeOf(error) ==
    IF error[1] = "Error" THEN "ECONNREFUSED"
    ELSE IF error[1] = "TypeError" THEN "ERR_INVALID_URL"
    ELSE Undefined

(***************************************************************************)
(* new RegExp(hostPattern, 'gi').test(host)                                *)
(***************************************************************************)
\* does `new RegExp(p, 'gi')` construct without throwing
Compiles(p) == \A k \in 1..Len(p) : p[k] # "("

RECURSIVE MatchAt(_, _, _, _)
\* tokens k.. of p match host h from position pos on
MatchAt(p, k, h, pos) ==
    IF k > Len(p) THEN TRUE
    ELSE IF p[k] = "^" THEN pos = 1 /\ MatchAt(p, k + 1, h, pos)
    ELSE IF p[k] = "$" THEN pos = Len(h) + 1 /\ MatchAt(p, k + 1, h, pos)
    ELSE /\ pos <= Len(h)
         /\ Lower(h[pos]) = Lower(p[k])
         /\ MatchAt(p, k + 1, h, pos + 1)

\* a fresh RegExp starts at lastIndex 0, so test() is an unanchored search
RegExpTest(p, h) == \E start \in 1..(Len(h) + 1) : MatchAt(p, 1, h, start)

RECURSIVE MatchFrom(_, _, _, _)
MatchFrom(rs, dflt, host, k) ==
    IF k > Len(rs) THEN dflt
    ELSE IF ~Compiles(rs[k].hostPattern) THEN SyntaxError
    ELSE IF RegExpTest(rs[k].hostPattern, host) THEN rs[k].upstream
    ELSE MatchFrom(rs, dflt, host, k + 1)

\* matchRoute of a proxy without a default upstream: null when no route matches
matchRouteNullDefault(rs, dflt, host) == MatchFrom(rs, Null, host, 1)

\* RoutingProxy.matchRoute(host)
matchRoute(rs, dflt, host) == MatchFrom(rs, dflt, host, 1)

(***************************************************************************)
(* Routing table operations.                                               *)
(***************************************************************************)
\* { label: 'default', ...route }: an own `label` property of the argument,
\* also one whose value is undefined, overrides the default
StoredLabel(labelSpec) == IF labelSpec = "absent" THEN "default" ELSE labelSpec

\* Array.prototype.splice(index, 0, item)
SpliceStart(len, index) ==
    IF index < 0 THEN (IF len + index < 0 THEN 0 ELSE len + index)
    ELSE IF index > len THEN len ELSE index

\* Array.prototype.push(item)
SplicePush(s, index, item) == Append(s, item)

Splice(s, index, item) ==
    LET start == SpliceStart(Len(s), index)
    IN  SubSeq(s, 1, start) \o <<item>> \o SubSeq(s, start + 1, Len(s))

\* Array.prototype.filter
RECURSIVE FilterLabel(_, _)
FilterLabel(s, label) ==
    IF s = <<>> THEN <<>>
    ELSE IF Head(s).label # label THEN <<Head(s)>> \o FilterLabel(Tail(s), label)
    ELSE FilterLabel(Tail(s), label)

\* the table after this.routes.splice(index, 0, {label: 'default', ...route})
RouteInserted(rs, labelSpec, pattern, routeUpstream, index) ==
    Splice(rs, index, [label |-> StoredLabel(labelSpec),
                       hostPattern |-> pattern,
                       upstream |-> routeUpstream])

insertRoute(labelSpec, pattern, routeUpstream, index) ==
    /\ Len(routes) < MaxRoutes
    /\ routes' = RouteInserted(routes, labelSpec, pattern, routeUpstream, index)
    /\ tableCall' = "insertRoute"
    /\ matchHost' = <<>>
    /\ matchResult' = "none"
    /\ UNCHANGED <<defaultUpstream, setupRoutes, original, engineVars, sideVars>>

\* removeRoutes that removes the first route of the label only
removeRoutesFirst(label) ==
    /\ routes' = IF \E k \in 1..Len(routes) : routes[k].label = label
                  THEN LET k == CHOOSE k \in 1..Len(routes) :
                                   /\ routes[k].label = label
                                   /\ \A j \in 1..(k - 1) : routes[j].label # label
                       IN  SubSeq(routes, 1, k - 1) \o SubSeq(routes, k + 1, Len(routes))
                  ELSE routes
    /\ tableCall' = "removeRoutes"
    /\ matchHost' = <<>>
    /\ matchResult' = "none"
    /\ UNCHANGED <<defaultUpstream, setupRoutes, original, engineVars, sideVars>>

removeRoutes(label) ==
    /\ routes' = FilterLabel(routes, label)
    /\ tableCall' = "removeRoutes"
    /\ matchHost' = <<>>
    /\ matchResult' = "none"
    /\ UNCHANGED <<defaultUpstream, setupRoutes, original, engineVars, sideVars>>

\* a clearRoutes that removes the routes labelled "default" only
RoutesClearedDefaultOnly == FilterLabel(routes, "default")

\* the table after this.routes = []
RoutesCleared == <<>>

clearRoutes ==
    /\ routes' = RoutesCleared
    /\ tableCall' = "clearRoutes"
    /\ matchHost' = <<>>
    /\ matchResult' = "none"
    /\ UNCHANGED <<defaultUpstream, setupRoutes, original, engineVars, sideVars>>

MatchRouteCall(host) ==
    /\ matchHost' = host
    /\ matchResult' = matchRoute(routes, defaultUpstream, host)
    /\ UNCHANGED <<routes, defaultUpstream, setupRoutes, original, tableCall, engineVars,
                   sideVars>>

\* no table recorded
NoTable == [set |-> FALSE, again |-> FALSE, routes |-> <<>>]

\* insertRoute(route) for each route of a list in turn: no label, no index
RECURSIVE InsertAll(_, _)
InsertAll(rs, list) ==
    IF list = <<>> THEN rs
    ELSE InsertAll(RouteInserted(rs, "absent", Head(list).hostPattern, Head(list).upstream, 0),
                   Tail(list))

\* the beforeEach hook of the routing tests: clearRoutes(), then insertRoute
\* for each of its routes
BeforeEach ==
    /\ routes' = InsertAll(RoutesCleared, setupRoutes)
    /\ original' = IF original.set THEN [original EXCEPT !.again = TRUE]
                    ELSE [set |-> TRUE, again |-> FALSE, routes |-> routes']
    /\ tableCall' = "beforeEach"
    /\ matchHost' = <<>>
    /\ matchResult' = "none"
    /\ UNCHANGED <<defaultUpstream, setupRoutes, engineVars, sideVars>>

RouteInit ==
    /\ routes = <<>>
    /\ defaultUpstream \in {Null, "upA"}
    /\ matchHost = <<>>
    /\ matchResult = "none"
    /\ setupRoutes = <<>>
    /\ original = NoTable
    /\ tableCall = "none"
    /\ EngineIdle
    /\ connectRetryAttempts = 0
    /\ clients = 0
    /\ inPartition = [r \in Reqs |-> Undefined]
    /\ LogIdle
    /\ LifeIdle
    /\ CertIdle
    /\ BumpIdle
    /\ ExtIdle

RouteNext ==
    \/ \E ls \in LabelSpecs, p \in HostPatterns, u \in UpstreamOrNull,
          index \in -1..MaxRoutes : insertRoute(ls, p, u, index)
    \/ \E label \in {"default", "x"} : removeRoutes(label)
    \/ clearRoutes
    \/ \E host \in Hosts : MatchRouteCall(host)

SpecRoute == RouteInit /\ [][RouteNext]_vars

\* hostPatterns and labels of the smaller routing specifications
TablePatterns == {<<"a">>, <<"^", "b">>}
TableLabelSpecs == {"absent", "x"}

TableNext ==
    \/ \E ls \in TableLabelSpecs, p \in TablePatterns, u \in UpstreamOrNull,
          index \in -1..MaxRoutes : insertRoute(ls, p, u, index)
    \/ \E label \in {"default", "x"} : removeRoutes(label)
    \/ clearRoutes
    \/ \E host \in Hosts : MatchRouteCall(host)

SpecTable == RouteInit /\ [][TableNext]_vars

\* the lists of routes a beforeEach hook inserts
SetupLists ==
    { <<[hostPattern |-> <<"^", "b">>, upstream |-> "upA"]>>,
      <<[hostPattern |-> <<"a">>, upstream |-> "upA"],
        [hostPattern |-> <<"a">>, upstream |-> "upB"]>> }

\* a routing proxy under a test suite with a beforeEach hook
SetupInit ==
    /\ routes = <<>>
    /\ defaultUpstream \in {Null, "upA"}
    /\ matchHost = <<>>
    /\ matchResult = "none"
    /\ setupRoutes \in SetupLists
    /\ original = NoTable
    /\ tableCall = "none"
    /\ EngineIdle
    /\ connectRetryAttempts = 0
    /\ clients = 0
    /\ inPartition = [r \in Reqs |-> Undefined]
    /\ LogIdle
    /\ LifeIdle
    /\ CertIdle
    /\ BumpIdle
    /\ ExtIdle

SetupNext ==
    \/ BeforeEach
    \/ \E ls \in TableLabelSpecs, p \in {<<"a">>}, u \in UpstreamOrNull,
          index \in -1..MaxRoutes : insertRoute(ls, p, u, index)
    \/ \E label \in {"default", "x"} : removeRoutes(label)
    \/ clearRoutes
    \/ \E host \in Hosts : MatchRouteCall(host)

SpecSetup == SetupInit /\ [][SetupNext]_vars

(***************************************************************************)
(* RoutingProxy, the revision whose routes hold RegExp objects:            *)
(* route.hostRegexp.test(host)                                             *)
(***************************************************************************)
\* the flags of a RegExp, as the set of its letters
RegExpFlags == {{"i"}, {"g", "i"}}

\* new RegExp(source, flags), or a regular expression literal: lastIndex 0
NewRegExp(source, flags) == [source |-> source, flags |-> flags, lastIndex |-> 0]

\* characters compare without case only under the i flag
SameChar(re, c, d) == IF "i" \in re.flags THEN Lower(c) = Lower(d) ELSE c = d

RECURSIVE MatchEnd(_, _, _, _)
\* the position after the match of tokens k.. of re.source at position pos
\* of h (positions count from 1), or 0 when they do not match there
MatchEnd(re, k, h, pos) ==
    IF k > Len(re.source) THEN pos
    ELSE IF re.source[k] = "^" THEN
        IF pos = 1 THEN MatchEnd(re, k + 1, h, pos) ELSE 0
    ELSE IF re.source[k] = "$" THEN
        IF pos = Len(h) + 1 THEN MatchEnd(re, k + 1, h, pos) ELSE 0
    ELSE IF pos <= Len(h) /\ SameChar(re, h[pos], re.source[k]) THEN
        MatchEnd(re, k + 1, h, pos + 1)
    ELSE 0

\* where the search of re.test(h) begins (an index counted from 0): at
\* lastIndex under the g flag, at 0 without it
SearchFrom(re) == IF "g" \in re.flags THEN re.lastIndex ELSE 0

\* the positions from the beginning of the search on at which re matches h
MatchStarts(re, h) ==
    {st \in (SearchFrom(re) + 1)..(Len(h) + 1) : MatchEnd(re, 1, h, st) # 0}

\* what re.test(h) returns
RegExpObjectTest(re, h) == MatchStarts(re, h) # {}

\* the RegExp object after re.test(h): under the g flag lastIndex moves to
\* the end of the match, or back to 0 when there is none
AfterTest(re, h) ==
    IF "g" \notin re.flags THEN re
    ELSE IF MatchStarts(re, h) = {} THEN [re EXCEPT !.lastIndex = 0]
    ELSE LET first == CHOOSE st \in MatchStarts(re, h) :
                          \A other \in MatchStarts(re, h) : st <= other
         IN  [re EXCEPT !.lastIndex = MatchEnd(re, 1, h, first) - 1]

RECURSIVE TestRoutes(_, _, _, _)
\* the loop of matchRoute from route k on: what it returns, and the routes
\* with the RegExp objects it has tested
TestRoutes(rs, dflt, host, k) ==
    IF k > Len(rs) THEN [upstream |-> dflt, routes |-> rs]
    ELSE LET tested == [rs EXCEPT ![k].hostRegexp = AfterTest(@, host)]
         IN  IF RegExpObjectTest(rs[k].hostRegexp, host)
             THEN [upstream |-> rs[k].upstream, routes |-> tested]
             ELSE TestRoutes(tested, dflt, host, k + 1)

\* RoutingProxy.matchRoute(host) of this revision
matchRouteRegexp(host) ==
    /\ matchHost' = host
    /\ matchResult' = TestRoutes(routes, defaultUpstream, host, 1).upstream
    /\ routes' = TestRoutes(routes, defaultUpstream, host, 1).routes
    /\ UNCHANGED <<defaultUpstream, setupRoutes, original, tableCall, engineVars, sideVars>>

\* RoutingProxy.addRoute(hostRegexp, proxy, label = 'default')
addRoute(hostRegexp, proxy, label) ==
    /\ Len(routes) < MaxRoutes
    /\ routes' = <<[label |-> label, hostRegexp |-> hostRegexp, upstream |-> proxy]>> \o routes
    /\ tableCall' = "addRoute"
    /\ matchHost' = <<>>
    /\ matchResult' = "none"
    /\ UNCHANGED <<defaultUpstream, setupRoutes, original, engineVars, sideVars>>

\* RoutingProxy.getSerializedRoutes()
getSerializedRoutes(rs) ==
    [k \in 1..Len(rs) |->
        [label |-> rs[k].label,
         hostRegexp |-> [source |-> rs[k].hostRegexp.source, flags |-> rs[k].hostRegexp.flags],
         upstream |-> rs[k].upstream]]

\* RoutingProxy.setSerializedRoutes(serializedRoutes)
setSerializedRoutes(serializedRoutes) ==
    /\ routes' = [k \in 1..Len(serializedRoutes) |->
                    [label |-> serializedRoutes[k].label,
                     hostRegexp |-> NewRegExp(serializedRoutes[k].hostRegexp.source,
                                              serializedRoutes[k].hostRegexp.flags),
                     upstream |-> serializedRoutes[k].upstream]]
    /\ tableCall' = "setSerializedRoutes"
    /\ matchHost' = <<>>
    /\ matchResult' = "none"
    /\ UNCHANGED <<defaultUpstream, setupRoutes, original, engineVars, sideVars>>

\* the serialized tables handed to setSerializedRoutes: the table a proxy
\* of this state serializes, and a table of one route
SerializedTables ==
    {getSerializedRoutes(routes),
     <<[label |-> "x", hostRegexp |-> [source |-> <<"a">>, flags |-> {"g", "i"}],
        upstream |-> "upA"]>>}

RegexpNext ==
    \/ \E source \in TablePatterns, flags \in RegExpFlags, proxy \in {"upA"} :
          addRoute(NewRegExp(source, flags), proxy, "default")
    \/ \E serializedRoutes \in SerializedTables : setSerializedRoutes(serializedRoutes)
    \/ clearRoutes
    \/ \E host \in Hosts : matchRouteRegexp(host)

SpecRegexp == RouteInit /\ [][RegexpNext]_vars

(***************************************************************************)
(* BaseProxy: inbound requests, hedged outbound connects, tracking.        *)
(***************************************************************************)
\* status codes an upstream proxy answers the outbound CONNECT with
ReplyStatuses == {200, 407}
\* the `status` property of an error thrown by the authenticate hook
AuthStatuses == {NoStatus, 401}
\* status codes of a forwarded plain HTTP response
ResponseStatuses == {200, 404}

\* req.url of inbound requests; BadUrl is a string `new URL()` rejects
BadUrl == <<"(">>
EngineHosts == {<<"a">>}
\* routing tables the engine runs with: through an upstream, direct, or with
\* a pattern that does not compile
EngineRoutes ==
    { << [label |-> "default", hostPattern |-> <<"^", "a", "$">>, upstream |-> "upA"] >>,
      << [label |-> "default", hostPattern |-> <<"a">>, upstream |-> Null] >>,
      << [label |-> "default", hostPattern |-> <<"(">>, upstream |-> "upA"] >> }


\* the descriptors of the upstreams: upA asks for credentials and for
\* connectHeaders, upB for neither
UpstreamConfig(up) ==
    IF up = "upA"
    THEN [host |-> "upA:8080", username |-> "u", password |-> "p",
          connectHeaders |-> [h \in {"x-partition-name", "x-partition-foo"} |->
                                 IF h = "x-partition-name" THEN "some partition name"
                                 ELSE "bar"]]
    ELSE [host |-> "upB:8080", username |-> Undefined, password |-> Undefined,
          connectHeaders |-> <<>>]

\* values of the X-Partition-Id header of an inbound CONNECT
PartitionIds == {"p1"}

\* JavaScript truthiness of a header value or an optional string
Truthy(v) == v \notin {Undefined, ""}

\* `'Basic ' + base64(username + ':' + password)`, absent parts being '';
\* the base64 text is named by the string it encodes
makeBasicAuthHeader(config) ==
    <<"Basic",
      IF config.username = Undefined THEN "" ELSE config.username,
      ":",
      IF config.password = Undefined THEN "" ELSE config.password>>

\* Map.prototype.set / Map.prototype.delete
MapSet(m, k, v) == [x \in (DOMAIN m) \cup {k} |-> IF x = k THEN v ELSE m[x]]
MapDelete(m, k) == [x \in (DOMAIN m) \ {k} |-> m[x]]

\* an outbound CONNECT request without the connectHeaders of its upstream
WithoutConnectHeaders(headers, up) == headers

\* the connectHeaders of the upstream, put on the outbound CONNECT request
WithConnectHeaders(headers, up) ==
    [h \in (DOMAIN headers) \cup (DOMAIN UpstreamConfig(up).connectHeaders) |->
        IF h \in DOMAIN UpstreamConfig(up).connectHeaders
        THEN UpstreamConfig(up).connectHeaders[h]
        ELSE headers[h]]

\* createConnectRequest(targetHost, upstream), which knows no partition id
createConnectRequestNoPartition(partitionId, targetHost, up) ==
    LET base == [h \in {"host"} |-> targetHost]
    IN  IF Truthy(UpstreamConfig(up).username) \/ Truthy(UpstreamConfig(up).password)
        THEN MapSet(base, "proxy-authorization", makeBasicAuthHeader(UpstreamConfig(up)))
        ELSE base

\* createConnectRequest(inboundConnectReq, upstream): the headers of the
\* outbound CONNECT request, partitionId being the x-partition-id header of
\* the inbound request
createConnectRequest(partitionId, targetHost, up) ==
    LET base == [h \in {"host"} |-> targetHost]
        auth == IF Truthy(UpstreamConfig(up).username) \/ Truthy(UpstreamConfig(up).password)
                THEN MapSet(base, "proxy-authorization", makeBasicAuthHeader(UpstreamConfig(up)))
                ELSE base
    IN  IF Truthy(partitionId) THEN MapSet(auth, "x-partition-id", partitionId)
        ELSE auth

\* String(headers['x-partition-id'] || ''), assigned to connection.partitionId
\* when it is not empty
ConnectionPartitionId(partitionId) ==
    IF Truthy(partitionId) THEN partitionId ELSE Undefined

\* a handler that answers every failure with 502
StatusAlways502(status) == 502

\* (error as any).status ?? 502
StatusOr502(status) == IF status = NoStatus THEN 502 ELSE status

\* socket.destroy(): nothing happens to a socket that has closed
Destroy(sockState) == IF sockState = "closed" THEN "closed" ELSE "destroyed"

\* socket.write on the inbound socket: a destroyed socket sends nothing
ClientWrite(out, sockState, line) ==
    IF sockState = "open" THEN Append(out, line) ELSE out

\* the catch block of onConnect: onError, write the status line, end, destroy;
\* evs is what the handler did before it threw, sockState the state of the
\* inbound socket at that moment
ConnectCatch(r, status, code, evs, sockState) ==
    /\ Report(code)
    /\ events' = [events EXCEPT ![r] = Append(evs, "replyError")]
    /\ clientOut' = [clientOut EXCEPT
                       ![r] = ClientWrite(@, sockState, <<StatusOr502(status), NoId>>)]
    /\ clientSock' = [clientSock EXCEPT ![r] = Destroy(@)]
    /\ pc' = [pc EXCEPT ![r] = "done"]

\* a catch block that takes the status from error.details.statusCode, which
\* none of the errors reaching it carry
RequestCatchDetailsStatus(r, status, code, evs) ==
    /\ Report(code)
    /\ events' = [events EXCEPT ![r] = Append(evs, "replyError")]
    /\ clientOut' = [clientOut EXCEPT
                       ![r] = ClientWrite(@, clientSock[r], <<502, NoId>>)]
    /\ pc' = [pc EXCEPT ![r] = "done"]
    /\ UNCHANGED clientSock

\* the catch block of onRequest: onError, res.writeHead(statusCode), res.end()
RequestCatch(r, status, code, evs) ==
    /\ Report(code)
    /\ events' = [events EXCEPT ![r] = Append(evs, "replyError")]
    /\ clientOut' = [clientOut EXCEPT
                       ![r] = ClientWrite(@, clientSock[r], <<StatusOr502(status), NoId>>)]
    /\ pc' = [pc EXCEPT ![r] = "done"]
    /\ UNCHANGED clientSock

\* a 'connection' event of the http server, onConnection, followed by the
\* 'connect' / 'request' event of the request that came in on the socket:
\* the handler starts and calls the authenticate hook
Arrive(r, k, u) ==
    /\ pc[r] = "new"
    /\ r <= clients
    /\ isRunning
    /\ clientSockets' = clientSockets \cup {r}
    /\ IF r = 1 THEN TRUE ELSE pc[r - 1] # "new"
    /\ (k = "HTTP" \/ u # BadUrl)
    /\ kind' = [kind EXCEPT ![r] = k]
    /\ url' = [url EXCEPT ![r] = u]
    /\ pc' = [pc EXCEPT ![r] = "auth"]
    /\ events' = [events EXCEPT ![r] = <<"authenticate">>]
    /\ UNCHANGED <<upstream, clientOut, clientSock, configVars, elapsed, hdrVars,
                   trackedConnections, retryVars, attVars, obsVars,
                   routeVars, logVars, certVars, bumpVars, extVars, server,
                   shutdownForce>>

\* the authenticate hook throws an error whose status property is `status`
AuthThrow(r, status) ==
    /\ pc[r] = "auth"
    /\ IF kind[r] = "CONNECT"
       THEN ConnectCatch(r, status, Undefined, events[r], clientSock[r])
       ELSE RequestCatch(r, status, Undefined, events[r])
    /\ authErr' = [authErr EXCEPT ![r] = <<"Error", status>>]
    /\ UNCHANGED <<kind, url, upstream, configVars, elapsed, hdrVars, trackedConnections,
                   retryVars, attVars, upHeader, quietVars>>

\* onConnect resumes after `await this.authenticate(req)`: matchRoute, then
\* createSslConnection -> sslConnectWithRetry up to the scheduling of timers
ConnectAuthReturn(r) ==
    /\ pc[r] = "auth"
    /\ kind[r] = "CONNECT"
    /\ LET up == matchRoute(routes, defaultUpstream, url[r])
           evs == Append(events[r], "matchRoute")
       IN  IF up = SyntaxError
           THEN /\ ConnectCatch(r, NoStatus, Undefined, evs, clientSock[r])
                /\ UNCHANGED <<upstream, retryVars>>
           ELSE /\ upstream' = [upstream EXCEPT ![r] = up]
                /\ events' = [events EXCEPT ![r] = evs]
                /\ pc' = [pc EXCEPT ![r] = "connecting"]
                /\ timers' = [timers EXCEPT ![r] =
                       [i \in Attempts |->
                           IF i < connectRetryAttempts + 1 THEN "armed" ELSE "none"]]
                /\ pending' = [pending EXCEPT ![r] = connectRetryAttempts + 1]
                /\ resolved' = [resolved EXCEPT ![r] = FALSE]
                /\ promise' = [promise EXCEPT ![r] = "pending"]
                /\ UNCHANGED <<clientOut, clientSock, promiseVal, emitted,
                               errors, logged>>
    /\ UNCHANGED <<kind, url, configVars, elapsed, hdrVars, trackedConnections, attVars,
                   obsVars, quietVars>>

\* tryConnect that reports attempts counted from 1
TimerFireOneBased(r, i) ==
    /\ timers[r][i] = "armed"
    /\ \A j \in Attempts : j < i => timers[r][j] # "armed"
    /\ timers' = [timers EXCEPT ![r][i] = "fired"]
    /\ pending' = [pending EXCEPT ![r] = @ - 1]
    /\ emitted' = [emitted EXCEPT ![r] = Append(@, i + 1)]
    /\ events' = [events EXCEPT ![r] = Append(@, "outboundConnect")]
    /\ att' = [att EXCEPT ![r][i] = "inflight"]
    /\ outHeaders' = [outHeaders EXCEPT ![r][i] =
                         IF upstream[r] # Null
                         THEN WithConnectHeaders(
                                  createConnectRequest(inPartition[r], url[r], upstream[r]),
                                  upstream[r])
                         ELSE NoHeaders]
    /\ UNCHANGED <<kind, url, pc, upstream, clientOut, clientSock, resolved,
                   promise, promiseVal, attErr, upStatus, sock, rejectErr, connId, firstSucc, lastFail,
                   configVars, elapsed, connPartition, trackedConnections, obsVars, outerVars>>

\* timer i of sslConnectWithRetry fires: tryConnect(i) up to its await.
\* Timers set in one loop with delays i * connectRetryInterval fire in the
\* order of i.
TimerFire(r, i) ==
    /\ timers[r][i] = "armed"
    /\ \A j \in Attempts : j < i => timers[r][j] # "armed"
    /\ timers' = [timers EXCEPT ![r][i] = "fired"]
    /\ pending' = [pending EXCEPT ![r] = @ - 1]
    /\ emitted' = [emitted EXCEPT ![r] = Append(@, i)]
    /\ events' = [events EXCEPT ![r] = Append(@, "outboundConnect")]
    /\ att' = [att EXCEPT ![r][i] = "inflight"]
    /\ outHeaders' = [outHeaders EXCEPT ![r][i] =
                         IF upstream[r] # Null
                         THEN WithConnectHeaders(
                                  createConnectRequest(inPartition[r], url[r], upstream[r]),
                                  upstream[r])
                         ELSE NoHeaders]
    /\ UNCHANGED <<kind, url, pc, upstream, clientOut, clientSock, resolved,
                   promise, promiseVal, attErr, upStatus, sock, rejectErr, connId, firstSucc, lastFail,
                   configVars, elapsed, connPartition, trackedConnections, obsVars, outerVars>>

\* String(connectRes.headers['x-connection-id']) || Math.random()...: a
\* missing header becomes the string "undefined" and is used as the id
ConnectionIdStringified(hdr, r, i) == IF hdr # NoId THEN hdr ELSE <<"undefined", 0, 0>>

\* connectionIdHeader || Math.random().toString(36).substring(2), where
\* connectionIdHeader is String(connectRes.headers['x-connection-id'] || '');
\* sslDirectConnect always generates the id (hdr = NoId)
ConnectionId(hdr, r, i) == IF hdr # NoId THEN hdr ELSE FreshId(r, i)

\* a completion callback that is not guarded against a settled promise
SettlesAlways(r) == TRUE

\* resolve() / reject() take effect only on a promise that is still pending
Settles(r) == promise[r] = "pending"

\* a tryConnect whose winning attempt leaves the timers of the others armed
SucceedKeepsTimers(r, i, hdr) ==
    /\ att' = [att EXCEPT ![r][i] = "ok"]
    /\ firstSucc' = [firstSucc EXCEPT ![r] = IF @ = -1 THEN i ELSE @]
    /\ UNCHANGED <<lastFail, attErr, rejectErr, pending, emitted, authErr, errors, logged>>
    /\ IF resolved[r]
       THEN /\ sock' = [sock EXCEPT ![r][i] = "destroyed"]
            /\ UNCHANGED <<resolved, timers, promise, promiseVal, connId,
                           upHeader, trackedConnections, reqVars, connPartition>>
       ELSE /\ sock' = [sock EXCEPT ![r][i] = "open"]
            /\ resolved' = [resolved EXCEPT ![r] = TRUE]
            /\ UNCHANGED timers
            /\ IF Settles(r)
               THEN /\ promise' = [promise EXCEPT ![r] = "resolved"]
                    /\ promiseVal' = [promiseVal EXCEPT ![r] = i]
                    /\ connId' = [connId EXCEPT ![r] = ConnectionId(hdr, r, i)]
                    /\ connPartition' = [connPartition EXCEPT
                           ![r] = ConnectionPartitionId(inPartition[r])]
                    /\ upHeader' = [upHeader EXCEPT ![r] = hdr]
                    /\ trackedConnections' =
                          MapSet(trackedConnections, ConnectionId(hdr, r, i), <<r, i>>)
                    /\ events' = [events EXCEPT
                           ![r] = @ \o <<"connected", "track", "reply200">>]
                    /\ clientOut' = [clientOut EXCEPT
                           ![r] = ClientWrite(@, clientSock[r],
                                              <<200, ConnectionId(hdr, r, i)>>)]
                    /\ pc' = [pc EXCEPT ![r] = "relay"]
                    /\ UNCHANGED <<kind, url, upstream, clientSock>>
               ELSE UNCHANGED <<promise, promiseVal, connId, upHeader,
                               trackedConnections, reqVars, connPartition>>

\* tryConnect(i) resumes with a connection: the rest of its try block and,
\* when it settles the promise, createSslConnection and onConnect up to the
\* await of the two pipelines. These continuations are promise jobs of one
\* turn of the event loop: no socket event is dispatched between them.
Succeed(r, i, hdr) ==
    /\ att' = [att EXCEPT ![r][i] = "ok"]
    /\ firstSucc' = [firstSucc EXCEPT ![r] = IF @ = -1 THEN i ELSE @]
    /\ UNCHANGED <<lastFail, attErr, rejectErr, pending, emitted, authErr, errors, logged>>
    /\ IF resolved[r]
       THEN /\ sock' = [sock EXCEPT ![r][i] = "destroyed"]
            /\ UNCHANGED <<resolved, timers, promise, promiseVal, connId,
                           upHeader, trackedConnections, reqVars, connPartition>>
       ELSE /\ sock' = [sock EXCEPT ![r][i] = "open"]
            /\ resolved' = [resolved EXCEPT ![r] = TRUE]
            /\ timers' = [timers EXCEPT ![r] =
                   [j \in Attempts |-> IF @[j] = "armed" THEN "cleared" ELSE @[j]]]
            /\ IF Settles(r)
               THEN /\ promise' = [promise EXCEPT ![r] = "resolved"]
                    /\ promiseVal' = [promiseVal EXCEPT ![r] = i]
                    /\ connId' = [connId EXCEPT ![r] = ConnectionId(hdr, r, i)]
                    /\ connPartition' = [connPartition EXCEPT
                           ![r] = ConnectionPartitionId(inPartition[r])]
                    /\ upHeader' = [upHeader EXCEPT ![r] = hdr]
                    /\ trackedConnections' =
                          MapSet(trackedConnections, ConnectionId(hdr, r, i), <<r, i>>)
                    /\ events' = [events EXCEPT
                           ![r] = @ \o <<"connected", "track", "reply200">>]
                    /\ clientOut' = [clientOut EXCEPT
                           ![r] = ClientWrite(@, clientSock[r],
                                              <<200, ConnectionId(hdr, r, i)>>)]
                    /\ pc' = [pc EXCEPT ![r] = "relay"]
                    /\ UNCHANGED <<kind, url, upstream, clientSock>>
               ELSE UNCHANGED <<promise, promiseVal, connId, upHeader,
                               trackedConnections, reqVars, connPartition>>

\* a tryConnect that rejects only below zero pending attempts
FailBelowZero(r, i, error) ==
    /\ att' = [att EXCEPT ![r][i] = "failed"]
    /\ attErr' = [attErr EXCEPT ![r][i] = error]
    /\ lastFail' = [lastFail EXCEPT ![r] = i]
    /\ UNCHANGED <<sock, connId, firstSucc, pending, emitted, resolved, timers,
                   obsVars, connPartition>>
    /\ IF pending[r] < 0 /\ Settles(r)
       THEN /\ promise' = [promise EXCEPT ![r] = "rejected"]
            /\ promiseVal' = [promiseVal EXCEPT ![r] = i]
            /\ rejectErr' = [rejectErr EXCEPT ![r] = error]
            /\ ConnectCatch(r, error[2], CodeOf(error), events[r], clientSock[r])
            /\ UNCHANGED <<kind, url, upstream>>
       ELSE UNCHANGED <<promise, promiseVal, rejectErr, reqVars, errors, logged>>
    /\ UNCHANGED trackedConnections

\* tryConnect(i) resumes with an error: its catch block and, when it rejects
\* the promise, the catch block of onConnect
Fail(r, i, error) ==
    /\ att' = [att EXCEPT ![r][i] = "failed"]
    /\ attErr' = [attErr EXCEPT ![r][i] = error]
    /\ lastFail' = [lastFail EXCEPT ![r] = i]
    /\ UNCHANGED <<sock, connId, firstSucc, pending, emitted, resolved, timers,
                   obsVars, connPartition>>
    /\ IF pending[r] < 1 /\ Settles(r)
       THEN /\ promise' = [promise EXCEPT ![r] = "rejected"]
            /\ promiseVal' = [promiseVal EXCEPT ![r] = i]
            /\ rejectErr' = [rejectErr EXCEPT ![r] = error]
            /\ ConnectCatch(r, error[2], CodeOf(error), events[r], clientSock[r])
            /\ UNCHANGED <<kind, url, upstream>>
       ELSE UNCHANGED <<promise, promiseVal, rejectErr, reqVars, errors, logged>>
    /\ UNCHANGED trackedConnections

\* sslProxyConnect that takes every reply of the upstream for a success
ProxyConnectReplyAnyStatus(r, i, st, hdr) ==
    /\ att[r][i] = "inflight"
    /\ upstream[r] # Null
    /\ upStatus' = [upStatus EXCEPT ![r][i] = st]
    /\ Succeed(r, i, hdr)
    /\ UNCHANGED <<configVars, elapsed, outHeaders, quietVars>>

\* sslProxyConnect: the 'connect' event of the outbound CONNECT request, with
\* the upstream's status code and X-Connection-Id header (NoId: none)
ProxyConnectReply(r, i, st, hdr) ==
    /\ att[r][i] = "inflight"
    /\ upstream[r] # Null
    /\ upStatus' = [upStatus EXCEPT ![r][i] = st]
    /\ IF st >= 400
       THEN Fail(r, i, <<"ProxyConnectionFailed", st>>)
       ELSE Succeed(r, i, hdr)
    /\ UNCHANGED <<configVars, elapsed, outHeaders, quietVars>>

\* sslDirectConnect: the 'connect' event of the outbound socket
DirectConnected(r, i) ==
    /\ att[r][i] = "inflight"
    /\ upstream[r] = Null
    /\ Succeed(r, i, NoId)
    /\ UNCHANGED <<upStatus, configVars, elapsed, outHeaders, quietVars>>

\* the 'error' event of an outbound connect
ConnectError(r, i, name) ==
    /\ att[r][i] = "inflight"
    /\ Fail(r, i, <<name, NoStatus>>)
    /\ UNCHANGED <<upStatus, configVars, elapsed, outHeaders, quietVars>>

\* sslProxyConnect: the 'timeout' event of the outbound CONNECT request,
\* which was created with timeout: connectTimeout
ConnectTimeout(r, i) ==
    /\ att[r][i] = "inflight"
    /\ upstream[r] # Null
    /\ elapsed' = [elapsed EXCEPT ![r][i] = TRUE]
    /\ Fail(r, i, <<"ProxyConnectionTimeout", NoStatus>>)
    /\ UNCHANGED <<upStatus, configVars, outHeaders, quietVars>>

\* sslDirectConnect: connectTimeout passes while the socket of net.connect
\* is connecting; no timeout was set on it, so it emits no 'timeout' event
DirectTimeoutElapses(r, i) ==
    /\ att[r][i] = "inflight"
    /\ upstream[r] = Null
    /\ ~elapsed[r][i]
    /\ elapsed' = [elapsed EXCEPT ![r][i] = TRUE]
    /\ UNCHANGED <<configVars, trackedConnections, reqVars, retryVars, attVars, obsVars,
                   hdrVars, outerVars>>

\* createSslConnection without the 'close' listener
SocketCloseNoUntrack(r) ==
    /\ promise[r] = "resolved"
    /\ sock[r][promiseVal[r]] \in {"open", "destroyed"}
    /\ sock' = [sock EXCEPT ![r][promiseVal[r]] = "closed"]
    /\ UNCHANGED <<att, attErr, upStatus, rejectErr, connId, firstSucc, lastFail, reqVars, retryVars,
                   obsVars, configVars, elapsed, hdrVars, outerVars, trackedConnections>>

\* the 'close' event of the outbound socket of the connection that
\* createSslConnection returned: the listener registered there untracks
\* whatever is stored under the connection's id
SocketClose(r) ==
    /\ promise[r] = "resolved"
    /\ sock[r][promiseVal[r]] \in {"open", "destroyed"}
    /\ sock' = [sock EXCEPT ![r][promiseVal[r]] = "closed"]
    /\ trackedConnections' = MapDelete(trackedConnections, connId[r])
    /\ UNCHANGED <<att, attErr, upStatus, rejectErr, connId, firstSucc, lastFail, reqVars, retryVars,
                   obsVars, configVars, elapsed, hdrVars, outerVars>>

\* both pipelines of onConnect completed
RelayDone(r) ==
    /\ pc[r] = "relay"
    /\ pc' = [pc EXCEPT ![r] = "done"]
    /\ events' = [events EXCEPT ![r] = Append(@, "relayDone")]
    /\ UNCHANGED <<kind, url, upstream, clientOut, clientSock, retryVars, attVars,
                   obsVars, configVars, elapsed, hdrVars, trackedConnections, outerVars>>

\* a relay failure after which the inbound socket still accepts writes
RelayErrorClientWritable(r, clientDestroyed) ==
    /\ pc[r] = "relay"
    /\ sock' = [sock EXCEPT ![r][promiseVal[r]] = IF @ = "open" THEN "destroyed" ELSE @]
    /\ ConnectCatch(r, NoStatus, "ERR_STREAM_PREMATURE_CLOSE",
                    Append(events[r], "relayError"), clientSock[r])
    /\ UNCHANGED <<kind, url, upstream, att, attErr, upStatus, rejectErr, connId, firstSucc, lastFail,
                   obsVars, retryVars, configVars, elapsed, hdrVars, trackedConnections, quietVars>>

\* one of the pipelines failed, then the catch block of onConnect runs.
\* stream.pipeline destroys every stream of a failed pipeline that has not
\* finished its part in it, and both pipelines listen on both sockets: when
\* the catch block runs, the inbound socket is destroyed (clientDestroyed),
\* or the pipeline into it had completed before and ended its writable side.
\* A write on a destroyed or ended socket sends nothing.
RelayError(r, clientDestroyed) ==
    /\ pc[r] = "relay"
    /\ sock' = [sock EXCEPT ![r][promiseVal[r]] = IF @ = "open" THEN "destroyed" ELSE @]
    /\ ConnectCatch(r, NoStatus, "ERR_STREAM_PREMATURE_CLOSE",
                    Append(events[r], "relayError"),
                    IF clientDestroyed THEN "destroyed" ELSE "ended")
    /\ UNCHANGED <<kind, url, upstream, att, attErr, upStatus, rejectErr, connId, firstSucc, lastFail,
                   obsVars, retryVars, configVars, elapsed, hdrVars, trackedConnections, quietVars>>

\* onRequest resumes after `await this.authenticate(req)`: parse the URL,
\* matchRoute, create the forwarded request and pipe the body into it
RequestAuthReturn(r) ==
    /\ pc[r] = "auth"
    /\ kind[r] = "HTTP"
    /\ IF url[r] = BadUrl
       THEN /\ RequestCatch(r, NoStatus, "ERR_INVALID_URL", events[r])
            /\ UNCHANGED upstream
       ELSE LET up == matchRoute(routes, defaultUpstream, url[r])
                evs == Append(events[r], "matchRoute")
            IN  IF up = SyntaxError
                THEN /\ RequestCatch(r, NoStatus, Undefined, evs)
                     /\ UNCHANGED upstream
                ELSE /\ upstream' = [upstream EXCEPT ![r] = up]
                     /\ events' = [events EXCEPT ![r] = Append(evs, "forward")]
                     /\ pc' = [pc EXCEPT ![r] = "forwarding"]
                     /\ UNCHANGED <<clientOut, clientSock, errors, logged>>
    /\ UNCHANGED <<kind, url, retryVars, attVars, obsVars, configVars, elapsed, hdrVars,
                   trackedConnections, quietVars>>

\* the 'response' event of the forwarded request: relay status and body
ForwardResponse(r, st) ==
    /\ pc[r] = "forwarding"
    /\ clientOut' = [clientOut EXCEPT ![r] = ClientWrite(@, clientSock[r], <<st, NoId>>)]
    /\ events' = [events EXCEPT ![r] = Append(@, "reply")]
    /\ pc' = [pc EXCEPT ![r] = "done"]
    /\ UNCHANGED <<kind, url, upstream, clientSock, retryVars, attVars, obsVars,
                   configVars, elapsed, hdrVars, trackedConnections, outerVars>>

\* the 'error' event of the forwarded request
ForwardError(r) ==
    /\ pc[r] = "forwarding"
    /\ RequestCatch(r, NoStatus, "ECONNREFUSED", events[r])
    /\ UNCHANGED <<kind, url, upstream, retryVars, attVars, obsVars, configVars, elapsed, hdrVars,
                   trackedConnections, quietVars>>

\* the 'close' event of an inbound socket, after it was destroyed or after
\* the client closed it: the listener registered in onConnection
ClientSocketClose(r) ==
    /\ r \in clientSockets
    /\ clientSock[r] # "closed"
    /\ clientSock' = [clientSock EXCEPT ![r] = "closed"]
    /\ clientSockets' = clientSockets \ {r}
    /\ UNCHANGED <<kind, url, pc, upstream, events, clientOut, server, shutdownForce,
                   configVars, elapsed, hdrVars, trackedConnections, retryVars, attVars, obsVars,
                   routeVars, logVars, certVars, bumpVars, extVars>>

\* closeAllSockets(): the states of the inbound sockets after it
closeAllSockets(socks, tracked) ==
    [r \in Reqs |-> IF r \in tracked THEN Destroy(socks[r]) ELSE socks[r]]

\* shutdown that closes the sockets only of a proxy that is running
shutdownOnlyRunning(force) ==
    /\ shutdownForce' = (IF force THEN "forced" ELSE "graceful")
    /\ clientSock' = IF force /\ isRunning THEN closeAllSockets(clientSock, clientSockets)
                      ELSE clientSock
    /\ server' = Null
    /\ UNCHANGED <<kind, url, pc, upstream, events, clientOut, clientSockets,
                   configVars, elapsed, hdrVars, trackedConnections, retryVars, attVars, obsVars,
                   routeVars, logVars, certVars, bumpVars, extVars>>

\* shutdown(force)
shutdown(force) ==
    /\ shutdownForce' = (IF force THEN "forced" ELSE "graceful")
    /\ clientSock' = IF force THEN closeAllSockets(clientSock, clientSockets)
                      ELSE clientSock
    /\ server' = Null
    /\ UNCHANGED <<kind, url, pc, upstream, events, clientOut, clientSockets,
                   configVars, elapsed, hdrVars, trackedConnections, retryVars, attVars, obsVars,
                   routeVars, logVars, certVars, bumpVars, extVars>>

(***************************************************************************)
(* SslBumpProxy: the CONNECT handler that re-terminates TLS.               *)
(***************************************************************************)
\* hostnames of the targets of bumped CONNECTs: "b", "a.b"
BumpHostnames == {<<"b">>, <<"a", ".", "b">>}

\* what matchRoute does: it returns an upstream or null, or the hook throws
BumpRoutes == UpstreamOrNull \cup {SyntaxError}

\* the errors createSslConnection rejects with: the upstream refused the
\* CONNECT, the connect timed out, the socket failed
BumpConnectErrors(up) ==
    {<<"ProxyConnectionTimeout", NoStatus>>, <<"Error", NoStatus>>}
        \cup (IF up = Null THEN {} ELSE {<<"ProxyConnectionFailed", 407>>})

\* the catch block of SslBumpProxy.onConnect: onError, write the status
\* line on the inbound socket, end, destroy; evs is what the handler did
\* before it threw, sockState the state of the inbound socket at that moment
BumpCatch(r, error, evs, sockState) ==
    /\ Report(CodeOf(error))
    /\ bumpErr' = [bumpErr EXCEPT ![r] = error]
    /\ bumpEvents' = [bumpEvents EXCEPT ![r] = evs \o <<"writeStatus", "end", "destroy">>]
    /\ bumpOut' = [bumpOut EXCEPT
                     ![r] = ClientWrite(@, sockState, <<StatusOr502(error[2]), NoId>>)]
    /\ bumpSock' = [bumpSock EXCEPT ![r] = Destroy(@)]
    /\ bumpPc' = [bumpPc EXCEPT ![r] = "failed"]

\* onConnect up to its first await: bumpClientSocket wraps the inbound
\* socket with the certificate of the hostname, then matchRoute
BumpConnect(r, h, route) ==
    /\ bumpPc[r] = "new"
    /\ \A q \in Reqs : q < r => bumpPc[q] # "new"
    /\ CertLookup(h)
    /\ IF route = SyntaxError
       THEN /\ BumpCatch(r, <<"SyntaxError", NoStatus>>,
                         <<"bumpClientSocket", "matchRoute">>, bumpSock[r])
            /\ UNCHANGED bumpUpstream
       ELSE /\ bumpUpstream' = [bumpUpstream EXCEPT ![r] = route]
            /\ bumpEvents' = [bumpEvents EXCEPT
                  ![r] = <<"bumpClientSocket", "matchRoute", "createSslConnection">>]
            /\ bumpPc' = [bumpPc EXCEPT ![r] = "connecting"]
            /\ UNCHANGED <<bumpOut, bumpSock, bumpErr, errors, logged>>
    /\ UNCHANGED <<rejectUnauthorized, tlsRemote, authorized, muteErrorCodes, warnErrorCodes,
                   routeVars, engineVars, lifeVars, extVars>>

\* createSslConnection resolves: negotiateTls starts the handshake
BumpConnectResolve(r) ==
    /\ bumpPc[r] = "connecting"
    /\ bumpPc' = [bumpPc EXCEPT ![r] = "negotiating"]
    /\ tlsRemote' = [tlsRemote EXCEPT ![r] = "handshaking"]
    /\ bumpEvents' = [bumpEvents EXCEPT ![r] = Append(@, "negotiateTls")]
    /\ UNCHANGED <<rejectUnauthorized, bumpUpstream, bumpOut, bumpSock, authorized, bumpErr,
                   routeVars, engineVars, logVars, lifeVars, certVars, extVars>>

\* createSslConnection rejects
BumpConnectReject(r, error) ==
    /\ bumpPc[r] = "connecting"
    /\ error \in BumpConnectErrors(bumpUpstream[r])
    /\ BumpCatch(r, error, bumpEvents[r], bumpSock[r])
    /\ UNCHANGED <<rejectUnauthorized, bumpUpstream, tlsRemote, authorized, muteErrorCodes,
                   warnErrorCodes, routeVars, engineVars, lifeVars, certVars, extVars>>

\* negotiateTls that ends the socket of a peer that is not authorized,
\* reports the error and returns the socket
NegotiateSecureConnectReturnsSocket(r, auth) ==
    /\ bumpPc[r] = "negotiating"
    /\ ~auth => ~rejectUnauthorized
    /\ authorized' = [authorized EXCEPT ![r] = IF auth THEN "authorized" ELSE "unauthorized"]
    /\ tlsRemote' = [tlsRemote EXCEPT ![r] = IF auth THEN "secure" ELSE "ended"]
    /\ bumpOut' = [bumpOut EXCEPT ![r] = ClientWrite(@, bumpSock[r], <<200, FreshId(r, 0)>>)]
    /\ bumpEvents' = [bumpEvents EXCEPT
          ![r] = @ \o <<"secureConnect", "replyToConnectRequest", "handleTls">>]
    /\ bumpPc' = [bumpPc EXCEPT ![r] = "bridged"]
    /\ IF auth THEN UNCHANGED <<errors, logged, bumpErr>>
       ELSE /\ Report(Undefined)
            /\ bumpErr' = [bumpErr EXCEPT ![r] = <<"RemoteConnectionNotAuthorized", NoStatus>>]
    /\ UNCHANGED <<rejectUnauthorized, bumpUpstream, bumpSock, muteErrorCodes, warnErrorCodes,
                   routeVars, engineVars, lifeVars, certVars, extVars>>

\* 'secureConnect' of the outbound TLS socket: an authorized session is
\* answered with 200 on the inbound socket and bridged by handleTls; one
\* that is not authorized (reported so only when rejectUnauthorized is off)
\* is destroyed and RemoteConnectionNotAuthorized is thrown
NegotiateSecureConnect(r, auth) ==
    /\ bumpPc[r] = "negotiating"
    /\ ~auth => ~rejectUnauthorized
    /\ authorized' = [authorized EXCEPT ![r] = IF auth THEN "authorized" ELSE "unauthorized"]
    /\ IF auth
       THEN /\ tlsRemote' = [tlsRemote EXCEPT ![r] = "secure"]
            /\ bumpOut' = [bumpOut EXCEPT
                  ![r] = ClientWrite(@, bumpSock[r], <<200, FreshId(r, 0)>>)]
            /\ bumpEvents' = [bumpEvents EXCEPT
                  ![r] = @ \o <<"secureConnect", "replyToConnectRequest", "handleTls">>]
            /\ bumpPc' = [bumpPc EXCEPT ![r] = "bridged"]
            /\ UNCHANGED <<bumpSock, bumpErr, errors, logged>>
       ELSE /\ tlsRemote' = [tlsRemote EXCEPT ![r] = "destroyed"]
            /\ BumpCatch(r, <<"RemoteConnectionNotAuthorized", NoStatus>>,
                         Append(bumpEvents[r], "secureConnect"), bumpSock[r])
    /\ UNCHANGED <<rejectUnauthorized, bumpUpstream, muteErrorCodes, warnErrorCodes,
                   routeVars, engineVars, lifeVars, certVars, extVars>>

\* 'error' of the outbound TLS socket before 'secureConnect': the handshake
\* failed, timed out, or the peer was rejected by Node.js itself
NegotiateError(r) ==
    /\ bumpPc[r] = "negotiating"
    /\ tlsRemote' = [tlsRemote EXCEPT ![r] = "destroyed"]
    /\ BumpCatch(r, <<"Error", NoStatus>>, Append(bumpEvents[r], "error"), bumpSock[r])
    /\ UNCHANGED <<rejectUnauthorized, bumpUpstream, authorized, muteErrorCodes,
                   warnErrorCodes, routeVars, engineVars, lifeVars, certVars, extVars>>

\* both pipelines of handleTls finish: the two TLS sockets have closed
BridgeClose(r) ==
    /\ bumpPc[r] = "bridged"
    /\ bumpPc' = [bumpPc EXCEPT ![r] = "done"]
    /\ bumpSock' = [bumpSock EXCEPT ![r] = "closed"]
    /\ tlsRemote' = [tlsRemote EXCEPT ![r] = "closed"]
    /\ bumpEvents' = [bumpEvents EXCEPT ![r] = Append(@, "close")]
    /\ UNCHANGED <<rejectUnauthorized, bumpUpstream, bumpOut, authorized, bumpErr,
                   routeVars, engineVars, logVars, lifeVars, certVars, extVars>>

\* a pipeline of handleTls fails: stream.pipeline has destroyed both TLS
\* sockets, and with the inbound TLS socket the socket it wraps
BridgeError(r) ==
    /\ bumpPc[r] = "bridged"
    /\ tlsRemote' = [tlsRemote EXCEPT ![r] = "destroyed"]
    /\ BumpCatch(r, <<"Error", NoStatus>>, Append(bumpEvents[r], "pipelineError"),
                 "destroyed")
    /\ UNCHANGED <<rejectUnauthorized, bumpUpstream, authorized, muteErrorCodes,
                   warnErrorCodes, routeVars, engineVars, lifeVars, certVars, extVars>>

Init ==
    /\ routes \in EngineRoutes
    /\ defaultUpstream = Null
    /\ matchHost = <<>>
    /\ matchResult = "none"
    /\ setupRoutes = <<>>
    /\ original = NoTable
    /\ tableCall = "none"
    /\ connectRetryAttempts \in 0..MaxRetryAttempts
    /\ clients \in 1..MaxRequests
    /\ clients * (connectRetryAttempts + 1) <= MaxTotalAttempts
    /\ inPartition = [r \in Reqs |-> Undefined]
    /\ EngineIdle
    /\ LogIdle
    /\ Started
    /\ CertIdle
    /\ BumpIdle
    /\ ExtIdle

Next ==
    \/ \E r \in Reqs, k \in {"CONNECT", "HTTP"}, u \in EngineHosts \cup {BadUrl} :
          Arrive(r, k, u)
    \/ \E r \in Reqs, status \in AuthStatuses : AuthThrow(r, status)
    \/ \E r \in Reqs : ConnectAuthReturn(r)
    \/ \E r \in Reqs, i \in Attempts : TimerFire(r, i)
    \/ \E r \in Reqs, i \in Attempts, st \in ReplyStatuses,
          hdr \in UpstreamIds \cup {NoId} : ProxyConnectReply(r, i, st, hdr)
    \/ \E r \in Reqs, i \in Attempts : DirectConnected(r, i)
    \/ \E r \in Reqs, i \in Attempts, name \in {"Error"} : ConnectError(r, i, name)
    \/ \E r \in Reqs, i \in Attempts : ConnectTimeout(r, i)
    \/ \E r \in Reqs : SocketClose(r)
    \/ \E r \in Reqs : RelayDone(r)
    \/ \E r \in Reqs, clientDestroyed \in BOOLEAN : RelayError(r, clientDestroyed)
    \/ \E r \in Reqs : RequestAuthReturn(r)
    \/ \E r \in Reqs, st \in ResponseStatuses : ForwardResponse(r, st)
    \/ \E r \in Reqs : ForwardError(r)

Spec == Init /\ [][Next]_vars

\* a started proxy with one client, seen together with the passing of
\* connectTimeout on its direct connects
TimeoutInit ==
    /\ Init
    /\ clients = 1

TimeoutNext ==
    \/ Next
    \/ \E r \in Reqs, i \in Attempts : DirectTimeoutElapses(r, i)

\* a started proxy with one client; the timers that sslConnectWithRetry has
\* set and not cleared fire
SpecRetry ==
    /\ TimeoutInit
    /\ [][Next]_vars
    /\ \A r \in Reqs, i \in Attempts : WF_vars(TimerFire(r, i))

\* the timer of a CONNECT request created with the timeout option fires
\* when its socket has been idle for connectTimeout
SpecTimeout ==
    /\ TimeoutInit
    /\ [][TimeoutNext]_vars
    /\ \A r \in Reqs, i \in Attempts : WF_vars(ConnectTimeout(r, i))

\* routing tables to an upstream with credentials and connectHeaders, to
\* one without, and to the target itself
HeaderRoutes ==
    { << [label |-> "default", hostPattern |-> <<"a">>, upstream |-> up] >> :
          up \in UpstreamOrNull }

\* a started proxy with one client, which sends an X-Partition-Id or none
HeadersInit ==
    /\ routes \in HeaderRoutes
    /\ defaultUpstream = Null
    /\ matchHost = <<>>
    /\ matchResult = "none"
    /\ setupRoutes = <<>>
    /\ original = NoTable
    /\ tableCall = "none"
    /\ connectRetryAttempts \in 0..MaxRetryAttempts
    /\ clients = 1
    /\ inPartition \in {f \in [Reqs -> PartitionIds \cup {Undefined}] :
                            \A r \in Reqs : r > clients => f[r] = Undefined}
    /\ EngineIdle
    /\ LogIdle
    /\ Started
    /\ CertIdle
    /\ BumpIdle
    /\ ExtIdle

SpecHeaders == HeadersInit /\ [][Next]_vars

\* a started proxy without retries, whose clients may hang up and which is
\* shut down at some point
ShutdownInit ==
    /\ Init
    /\ connectRetryAttempts = 0

\* the handlers up to the outbound connect, which is left pending, and those
\* of the plain HTTP path
ShutdownNext ==
    \/ \E r \in Reqs, k \in {"CONNECT", "HTTP"}, u \in EngineHosts \cup {BadUrl} :
          Arrive(r, k, u)
    \/ \E r \in Reqs, status \in AuthStatuses : AuthThrow(r, status)
    \/ \E r \in Reqs : ConnectAuthReturn(r)
    \/ \E r \in Reqs : RequestAuthReturn(r)
    \/ \E r \in Reqs, st \in ResponseStatuses : ForwardResponse(r, st)
    \/ \E r \in Reqs : ForwardError(r)
    \/ \E r \in Reqs : ClientSocketClose(r)
    \/ \E force \in BOOLEAN : shutdown(force)

SpecShutdown == ShutdownInit /\ [][ShutdownNext]_vars

\* a proxy constructed with some muteErrorCodes and warnErrorCodes, whose
\* handlers report errors
OnErrorInit ==
    /\ routes = <<>>
    /\ defaultUpstream = Null
    /\ matchHost = <<>>
    /\ matchResult = "none"
    /\ setupRoutes = <<>>
    /\ original = NoTable
    /\ tableCall = "none"
    /\ EngineIdle
    /\ connectRetryAttempts = 0
    /\ clients = 0
    /\ inPartition = [r \in Reqs |-> Undefined]
    /\ muteErrorCodes \in SUBSET ErrorCodes
    /\ warnErrorCodes \in SUBSET ErrorCodes
    /\ errors = <<>>
    /\ logged = <<>>
    /\ LifeIdle
    /\ CertIdle
    /\ BumpIdle
    /\ ExtIdle

OnErrorNext == \E code \in ErrorCodes \cup {Undefined} : OnErrorCall(code)

SpecOnError == OnErrorInit /\ [][OnErrorNext]_vars

\* a certificate store of any capacity, whose clock advances
CertInit ==
    /\ routes = <<>>
    /\ defaultUpstream = Null
    /\ matchHost = <<>>
    /\ matchResult = "none"
    /\ setupRoutes = <<>>
    /\ original = NoTable
    /\ tableCall = "none"
    /\ EngineIdle
    /\ connectRetryAttempts = 0
    /\ clients = 0
    /\ inPartition = [r \in Reqs |-> Undefined]
    /\ LogIdle
    /\ LifeIdle
    /\ certCacheMaxEntries \in 1..MaxCacheEntries
    /\ certTtlDays \in 1..MaxTtlDays
    /\ certPemCache = <<>>
    /\ now = 0
    /\ clockDrift = NoDrift
    /\ issued = <<>>
    /\ hostname = <<>>
    /\ ret = NoCert
    /\ lookups = <<>>
    /\ lastUse = [h \in CertHostnames |-> 0]
    /\ calls = 0
    /\ ticks = 0
    /\ BumpIdle
    /\ ExtIdle

CertNext ==
    \/ \E h \in CertHostnames : getCertificate(h)
    \/ \E step \in TickSteps : Tick(step)

SpecCert == CertInit /\ [][CertNext]_vars

\* a certificate store whose clock may advance during a call
CertClockInit ==
    /\ routes = <<>>
    /\ defaultUpstream = Null
    /\ matchHost = <<>>
    /\ matchResult = "none"
    /\ setupRoutes = <<>>
    /\ original = NoTable
    /\ tableCall = "none"
    /\ EngineIdle
    /\ connectRetryAttempts = 0
    /\ clients = 0
    /\ inPartition = [r \in Reqs |-> Undefined]
    /\ LogIdle
    /\ LifeIdle
    /\ certCacheMaxEntries \in 1..MaxCacheEntries
    /\ certTtlDays \in 1..MaxTtlDays
    /\ certPemCache = <<>>
    /\ now = 0
    /\ clockDrift = ClockDrift
    /\ issued = <<>>
    /\ hostname = <<>>
    /\ ret = NoCert
    /\ lookups = <<>>
    /\ lastUse = [h \in CertHostnames |-> 0]
    /\ calls = 0
    /\ ticks = 0
    /\ BumpIdle
    /\ ExtIdle

CertClockNext ==
    \/ \E h \in ClockHostnames : getCertificate(h)
    \/ \E step \in TickSteps : Tick(step)

SpecCertClock == CertClockInit /\ [][CertClockNext]_vars

\* an SSL bump proxy whose process verifies the peers of tls.connect or not
BumpInit ==
    /\ routes = <<>>
    /\ defaultUpstream = Null
    /\ matchHost = <<>>
    /\ matchResult = "none"
    /\ setupRoutes = <<>>
    /\ original = NoTable
    /\ tableCall = "none"
    /\ EngineIdle
    /\ connectRetryAttempts = 0
    /\ clients = 0
    /\ inPartition = [r \in Reqs |-> Undefined]
    /\ LogIdle
    /\ Started
    /\ CertIdle
    /\ rejectUnauthorized \in BOOLEAN
    /\ bumpPc = [r \in Reqs |-> "new"]
    /\ bumpUpstream = [r \in Reqs |-> Null]
    /\ bumpEvents = [r \in Reqs |-> <<>>]
    /\ bumpOut = [r \in Reqs |-> <<>>]
    /\ bumpSock = [r \in Reqs |-> "open"]
    /\ tlsRemote = [r \in Reqs |-> "none"]
    /\ authorized = [r \in Reqs |-> "unknown"]
    /\ bumpErr = [r \in Reqs |-> NoError]
    /\ ExtIdle

BumpNext ==
    \/ \E r \in Reqs, h \in BumpHostnames, route \in BumpRoutes : BumpConnect(r, h, route)
    \/ \E r \in Reqs : BumpConnectResolve(r)
    \/ \E r \in Reqs, error \in BumpConnectErrors("upA") : BumpConnectReject(r, error)
    \/ \E r \in Reqs, auth \in BOOLEAN : NegotiateSecureConnect(r, auth)
    \/ \E r \in Reqs : NegotiateError(r)
    \/ \E r \in Reqs : BridgeClose(r)
    \/ \E r \in Reqs : BridgeError(r)

SpecBump == BumpInit /\ [][BumpNext]_vars

(***************************************************************************)
(* SslBumpProxy: the two TLS sockets of a bridged tunnel, event by event.  *)
(* Both sockets are duplex streams with allowHalfOpen off, joined by the   *)
(* two pipelines of handleTls and by the 'close' handlers of onConnect.    *)
(***************************************************************************)
\* socket.end() on a socket that is not destroyed
EndWritable(tlsSocket) ==
    IF tlsSocket.destroyed THEN tlsSocket ELSE [tlsSocket EXCEPT !.writable = "ended"]

\* the 'close' handler onConnect registers on one socket, applied to the
\* other: if (!other.destroyed) other.end()
OnClose(other) == IF ~other.destroyed THEN EndWritable(other) ELSE other

\* 'end' of the TLS socket of one side: its peer has finished sending. The
\* socket ends its own write side (allowHalfOpen is off) and is destroyed,
\* its 'close' is yet to come; the pipeline out of it ends the other socket
PeerEnd(r, side) ==
    /\ bumpPc[r] = "bridged"
    /\ tlsSockets[r][side].readable = "open"
    /\ ~tlsSockets[r][side].destroyed
    /\ tlsSockets' = [tlsSockets EXCEPT
          ![r] = [s \in Sides |->
                    IF s = side
                    THEN [readable |-> "ended", writable |-> "ended", destroyed |-> TRUE,
                          closed |-> FALSE]
                    ELSE EndWritable(tlsSockets[r][s])]]
    /\ UNCHANGED <<detailVars, startVars, loopVars, tunnelVars, bumpVars, routeVars, engineVars, logVars,
                   lifeVars, certVars>>

\* 'error' of the TLS socket of one side (the connection was reset): the
\* pipelines fail and destroy both sockets, handleTls rejects and the catch
\* block of onConnect reports the error and destroys the inbound socket
PeerError(r, side) ==
    /\ bumpPc[r] = "bridged"
    /\ ~tlsSockets[r][side].destroyed
    /\ tlsSockets' = [tlsSockets EXCEPT
          ![r] = [s \in Sides |-> [tlsSockets[r][s] EXCEPT !.destroyed = TRUE]]]
    /\ tlsRemote' = [tlsRemote EXCEPT ![r] = "destroyed"]
    /\ BumpCatch(r, <<"Error", NoStatus>>, Append(bumpEvents[r], "pipelineError"), "destroyed")
    /\ UNCHANGED <<rejectUnauthorized, bumpUpstream, authorized, muteErrorCodes, warnErrorCodes,
                   detailVars, startVars, loopVars, tunnelVars, routeVars, engineVars, lifeVars, certVars>>

\* 'close' of a destroyed TLS socket: the handler registered by onConnect
\* runs on the other socket; handleTls returns once both have closed
TlsSocketClose(r, side) ==
    /\ tlsSockets[r][side].destroyed
    /\ ~tlsSockets[r][side].closed
    /\ tlsSockets' = [tlsSockets EXCEPT
          ![r] = [s \in Sides |->
                    IF s = side THEN [tlsSockets[r][s] EXCEPT !.closed = TRUE]
                    ELSE OnClose(tlsSockets[r][s])]]
    /\ IF side = "remote"
       THEN /\ tlsRemote' = [tlsRemote EXCEPT ![r] = IF @ = "destroyed" THEN @ ELSE "closed"]
            /\ UNCHANGED bumpSock
       ELSE /\ bumpSock' = [bumpSock EXCEPT ![r] = IF @ = "destroyed" THEN @ ELSE "closed"]
            /\ UNCHANGED tlsRemote
    /\ IF bumpPc[r] = "bridged" /\ tlsSockets[r][Other(side)].closed
       THEN /\ bumpPc' = [bumpPc EXCEPT ![r] = "done"]
            /\ bumpEvents' = [bumpEvents EXCEPT ![r] = Append(@, "close")]
       ELSE UNCHANGED <<bumpPc, bumpEvents>>
    /\ UNCHANGED <<rejectUnauthorized, bumpUpstream, bumpOut, authorized, bumpErr,
                   detailVars, startVars, loopVars, tunnelVars, routeVars, engineVars, logVars, lifeVars,
                   certVars>>

\* direct tunnels to one host, each bridged and then left to its peers
BridgeNext ==
    \/ \E r \in Reqs : BumpConnect(r, <<"b">>, Null)
    \/ \E r \in Reqs : BumpConnectResolve(r)
    \/ \E r \in Reqs : NegotiateSecureConnect(r, TRUE)
    \/ \E r \in Reqs, side \in Sides : PeerEnd(r, side)
    \/ \E r \in Reqs, side \in Sides : PeerError(r, side)
    \/ \E r \in Reqs, side \in Sides : TlsSocketClose(r, side)

\* the 'close' of a destroyed socket is emitted by the event loop; what the
\* peers of the two sockets do and when is theirs to decide
SpecBridge ==
    /\ BumpInit
    /\ [][BridgeNext]_vars
    /\ \A r \in Reqs, side \in Sides : WF_vars(TlsSocketClose(r, side))

(***************************************************************************)
(* The byte relay of an established tunnel: the two pipelines of           *)
(* BaseProxy.onConnect, or of SslBumpProxy.handleTls.                      *)
(***************************************************************************)
\* what the client has sent along with its CONNECT request: nothing, or a
\* first packet
Heads == {<<>>, <<"early">>}

\* the k-th chunk that arrives on a socket is named by k; the relay does
\* not look into the chunks
Chunk(k) == k

\* the chunk a pipeline writes next: the one that arrived last
NextChunkNewest(arrived, written) == arrived[Len(arrived)]

\* the chunk a pipeline writes next: the oldest one it has not written
NextChunk(arrived, written) == arrived[Len(written) + 1]

\* the 'connect' event of the server with (req, socket, head), of which the
\* handler takes req and socket; onConnect up to the call of the pipelines
TunnelConnect(r, head) ==
    /\ tunnelPc[r] = "new"
    /\ tunnelPc' = [tunnelPc EXCEPT ![r] = "established"]
    /\ tunnelHead' = [tunnelHead EXCEPT ![r] = head]
    /\ UNCHANGED <<received, delivered, detailVars, startVars, loopVars, tlsSockets,
                   routeVars, engineVars, logVars, lifeVars, certVars, bumpVars>>

\* a chunk arrives on the source socket of one direction
SourceData(r, d) ==
    /\ tunnelPc[r] = "established"
    /\ Len(received[r][d]) < MaxChunks
    /\ received' = [received EXCEPT ![r][d] = Append(@, Chunk(Len(@) + 1))]
    /\ UNCHANGED <<tunnelPc, tunnelHead, delivered, detailVars, startVars, loopVars, tlsSockets,
                   routeVars, engineVars, logVars, lifeVars, certVars, bumpVars>>

\* the pipeline of one direction reads a chunk and writes it to its
\* destination
Relay(r, d) ==
    /\ tunnelPc[r] = "established"
    /\ Len(delivered[r][d]) < Len(received[r][d])
    /\ delivered' = [delivered EXCEPT
          ![r][d] = Append(@, NextChunk(received[r][d], delivered[r][d]))]
    /\ UNCHANGED <<tunnelPc, tunnelHead, received, detailVars, startVars, loopVars, tlsSockets,
                   routeVars, engineVars, logVars, lifeVars, certVars, bumpVars>>

\* the pipelines have finished or failed: nothing more is relayed
TunnelClose(r) ==
    /\ tunnelPc[r] = "established"
    /\ tunnelPc' = [tunnelPc EXCEPT ![r] = "closed"]
    /\ UNCHANGED <<tunnelHead, received, delivered, detailVars, startVars, loopVars, tlsSockets,
                   routeVars, engineVars, logVars, lifeVars, certVars, bumpVars>>

TunnelNext ==
    \/ \E r \in Tunnels, head \in Heads : TunnelConnect(r, head)
    \/ \E r \in Tunnels, d \in Directions : SourceData(r, d)
    \/ \E r \in Tunnels, d \in Directions : Relay(r, d)
    \/ \E r \in Tunnels : TunnelClose(r)

SpecTunnel == BumpInit /\ [][TunnelNext]_vars

(***************************************************************************)
(* BaseProxy.start / shutdown with the http servers as objects: each       *)
(* start() creates a server whose 'close' event arrives some time after    *)
(* server.close() was called.                                              *)
(***************************************************************************)
\* the `port` argument of start(); 0 asks for a port of the system's choice
StartPorts == {0, 8080}

\* the port the id-th server binds when asked for `port`
BindPort(id, port) == IF port = 0 THEN 49152 + id ELSE port

\* this.server?.address()?.port ?? 0 : a server has an address while it
\* listens
getServerPort ==
    IF serverRef = 0 THEN 0
    ELSE IF httpServers[serverRef].state = "listening" THEN httpServers[serverRef].port
    ELSE 0

\* this.server != null
isRunningRef == serverRef # 0

\* start(port) up to its await: a new server is created, its handlers are
\* registered, listen() is called and this.server refers to it
startCall(port) ==
    /\ Len(httpServers) < MaxStarts
    /\ serverRef = 0
    /\ httpServers' = Append(httpServers, [state |-> "binding", port |-> port])
    /\ serverRef' = Len(httpServers) + 1
    /\ server' = Listening
    /\ overlapped' = (overlapped \/ \E id \in 1..Len(httpServers) :
                                       httpServers[id].state = "closing")
    /\ startResolved' = FALSE
    /\ UNCHANGED <<boundPort, clientSockets, shutdownForce, detailVars, loopVars, tlsSockets, tunnelVars,
                   routeVars, engineVars, logVars, certVars, bumpVars>>

\* 'listening' of the server start() created: start() resolves
ServerListening(id) ==
    /\ id \in 1..Len(httpServers)
    /\ httpServers[id].state = "binding"
    /\ httpServers' = [httpServers EXCEPT ![id] =
                          [state |-> "listening", port |-> BindPort(id, @.port)]]
    /\ startResolved' = TRUE
    /\ boundPort' = BindPort(id, httpServers[id].port)
    /\ UNCHANGED <<serverRef, overlapped, lifeVars, detailVars, loopVars, tlsSockets, tunnelVars, routeVars, engineVars,
                   logVars, certVars, bumpVars>>

\* shutdown(force) of a proxy without inbound sockets: server.close() is
\* called on the server this.server refers to, and this.server is set to null
shutdownCall(force) ==
    /\ shutdownForce' = (IF force THEN "forced" ELSE "graceful")
    /\ IF serverRef # 0
       THEN httpServers' = [httpServers EXCEPT ![serverRef].state = "closing"]
       ELSE UNCHANGED httpServers
    /\ serverRef' = 0
    /\ server' = Null
    /\ startResolved' = FALSE
    /\ UNCHANGED <<boundPort, overlapped, clientSockets, detailVars, loopVars, tlsSockets, tunnelVars, routeVars,
                   engineVars, logVars, certVars, bumpVars>>

\* 'close' of a server: the handler start() registered on it sets
\* this.server to null, and the promise of its shutdown() resolves
ServerClose(id) ==
    /\ id \in 1..Len(httpServers)
    /\ httpServers[id].state = "closing"
    /\ httpServers' = [httpServers EXCEPT ![id].state = "closed"]
    /\ serverRef' = 0
    /\ server' = Null
    /\ UNCHANGED <<startResolved, boundPort, overlapped, clientSockets, shutdownForce,
                   detailVars, loopVars, tlsSockets, tunnelVars, routeVars, engineVars, logVars, certVars, bumpVars>>

LifecycleNext ==
    \/ \E port \in StartPorts : startCall(port)
    \/ \E id \in 1..MaxStarts : ServerListening(id)
    \/ \E force \in BOOLEAN : shutdownCall(force)
    \/ \E id \in 1..MaxStarts : ServerClose(id)

SpecLifecycle == RouteInit /\ [][LifecycleNext]_vars

(***************************************************************************)
(* SslBumpProxy, the revision that hands the decrypted requests to the     *)
(* proxy's own http server over a loopback socket.                         *)
(***************************************************************************)
\* target hosts of bumped CONNECTs, as req.url gives them
LoopHosts == {"g:8443", "h:8443"}

\* a tunnel no CONNECT has opened yet
NoTunnelHost == "none"

\* onConnect up to its await: the certificate is minted, the client socket
\* wrapped, and the TLS session with the target is being negotiated
LoopConnect(t, host) ==
    /\ loopPc[t] = "new"
    /\ loopPc' = [loopPc EXCEPT ![t] = "negotiating"]
    /\ loopHost' = [loopHost EXCEPT ![t] = host]
    /\ UNCHANGED <<remoteConnectionsMap, loopRemote, forwardedOver, detailVars, startVars, tlsSockets, tunnelVars,
                   routeVars, engineVars, logVars, lifeVars, certVars, bumpVars>>

\* 'secureConnect' of the tunnel's TLS socket to the target: negotiateTls
\* ends the socket when it is not authorized and returns it either way;
\* onConnect stores it under the host, replies 200 and pipes the decrypted
\* client stream into a loopback connection to the proxy's own server
LoopSecureConnect(t, auth) ==
    /\ loopPc[t] = "negotiating"
    /\ loopRemote' = [loopRemote EXCEPT ![t] = IF auth THEN "open" ELSE "closed"]
    /\ remoteConnectionsMap' =
          [h \in DOMAIN remoteConnectionsMap \cup {loopHost[t]} |->
              IF h = loopHost[t] THEN t ELSE remoteConnectionsMap[h]]
    /\ loopPc' = [loopPc EXCEPT ![t] = "bridged"]
    /\ UNCHANGED <<loopHost, forwardedOver, detailVars, startVars, tlsSockets, tunnelVars,
                   routeVars, engineVars, logVars, lifeVars, certVars, bumpVars>>

\* onRequest for a request that arrived decrypted over the loopback
\* connection of tunnel t: its Host header names the tunnel's target; the
\* request is written on the socket stored under that host
LoopRequest(t) ==
    /\ loopPc[t] = "bridged"
    /\ Len(forwardedOver[t]) < MaxRequests
    /\ LET remoteSocket == remoteConnectionsMap[loopHost[t]]
       IN  forwardedOver' =
              [forwardedOver EXCEPT ![t] =
                  Append(@, [socket |-> remoteSocket, state |-> loopRemote[remoteSocket]])]
    /\ UNCHANGED <<remoteConnectionsMap, loopPc, loopHost, loopRemote, detailVars, startVars, tlsSockets, tunnelVars,
                   routeVars, engineVars, logVars, lifeVars, certVars, bumpVars>>

\* the target closes the TLS socket of tunnel t; the map keeps its entry
LoopRemoteClose(t) ==
    /\ loopRemote[t] = "open"
    /\ loopRemote' = [loopRemote EXCEPT ![t] = "closed"]
    /\ UNCHANGED <<remoteConnectionsMap, loopPc, loopHost, forwardedOver, detailVars, startVars, tlsSockets, tunnelVars,
                   routeVars, engineVars, logVars, lifeVars, certVars, bumpVars>>

LoopInit ==
    /\ routes = <<>>
    /\ defaultUpstream = Null
    /\ matchHost = <<>>
    /\ matchResult = "none"
    /\ setupRoutes = <<>>
    /\ original = NoTable
    /\ tableCall = "none"
    /\ EngineIdle
    /\ connectRetryAttempts = 0
    /\ clients = 0
    /\ inPartition = [r \in Reqs |-> Undefined]
    /\ LogIdle
    /\ Started
    /\ CertIdle
    /\ BumpIdle
    /\ DetailIdle
    /\ StartIdle
    /\ remoteConnectionsMap = [h \in {} |-> 0]
    /\ loopPc = [t \in Reqs |-> "new"]
    /\ loopHost = [t \in Reqs |-> NoTunnelHost]
    /\ loopRemote = [t \in Reqs |-> "none"]
    /\ forwardedOver = [t \in Reqs |-> <<>>]
    /\ BridgeIdle
    /\ TunnelIdle

LoopNext ==
    \/ \E t \in Reqs, host \in LoopHosts : LoopConnect(t, host)
    \/ \E t \in Reqs, auth \in BOOLEAN : LoopSecureConnect(t, auth)
    \/ \E t \in Reqs : LoopRequest(t)
    \/ \E t \in Reqs : LoopRemoteClose(t)

SpecLoopback == LoopInit /\ [][LoopNext]_vars

(***************************************************************************)
(* The errors of a failed outbound CONNECT and their `details`.            *)
(***************************************************************************)
\* the callers whose upstream objects are set side by side
Callers == {1, 2}

\* ProxyUpstream objects; an optional property that is absent reads undefined
UpstreamObjects ==
    [host : {"p:1"}, username : {Undefined, "u"}, password : {Undefined, "pw1", "pw2"},
     useHttps : {Undefined, "true"}]

\* what `...null` spreads: no property
NoProperties ==
    [host |-> Undefined, username |-> Undefined, password |-> Undefined, useHttps |-> Undefined]

\* { ...upstream, password: '***' }: a new object with the properties of
\* upstream, whose password reads '***'
Spread(up) == [up EXCEPT !.password = "***"]

\* no error has been constructed
NoConnectionError == [name |-> "none"]

\* new ProxyConnectionFailed(upstream, status)
ProxyConnectionFailed(up, status) ==
    [name |-> "ProxyConnectionFailed", status |-> status,
     details |-> [upstream |-> Spread(up), status |-> status]]

\* new ProxyConnectionTimeout(upstream)
ProxyConnectionTimeout(up) ==
    [name |-> "ProxyConnectionTimeout", details |-> [upstream |-> Spread(up)]]

\* new ProxyConnectionFailed(cause, details) of the earlier revision
ProxyConnectionFailedCause(cause, details) ==
    [name |-> "ProxyConnectionFailed", cause |-> cause, details |-> details]

\* sslProxyConnect: the upstream proxy answered the CONNECT with a status
\* of 400 or more
ConnectStatusFailed(c, status) ==
    /\ connectionError' =
          [connectionError EXCEPT ![c] = ProxyConnectionFailed(callerUpstream[c], status)]
    /\ UNCHANGED <<callerUpstream, startVars, loopVars, tlsSockets, tunnelVars, routeVars, engineVars, logVars, lifeVars, certVars,
                   bumpVars>>

\* sslProxyConnect: the CONNECT request to the upstream proxy timed out
ConnectRequestTimeout(c) ==
    /\ connectionError' =
          [connectionError EXCEPT ![c] = ProxyConnectionTimeout(callerUpstream[c])]
    /\ UNCHANGED <<callerUpstream, startVars, loopVars, tlsSockets, tunnelVars, routeVars, engineVars, logVars, lifeVars, certVars,
                   bumpVars>>

\* sslDirectConnect: the direct connection timed out; the upstream is null
DirectConnectTimeout(c) ==
    /\ connectionError' = [connectionError EXCEPT ![c] = ProxyConnectionTimeout(NoProperties)]
    /\ UNCHANGED <<callerUpstream, startVars, loopVars, tlsSockets, tunnelVars, routeVars, engineVars, logVars, lifeVars, certVars,
                   bumpVars>>

\* sslProxyConnect of the earlier revision: the upstream object itself is
\* handed over as a property of the details
ConnectStatusFailedEarlier(c, statusCode) ==
    /\ connectionError' =
          [connectionError EXCEPT ![c] =
              ProxyConnectionFailedCause(statusCode,
                  [upstream |-> callerUpstream[c], statusCode |-> statusCode])]
    /\ UNCHANGED <<callerUpstream, startVars, loopVars, tlsSockets, tunnelVars, routeVars, engineVars, logVars, lifeVars, certVars,
                   bumpVars>>

\* two callers whose upstream objects differ in nothing but the password
DetailsInit ==
    /\ routes = <<>>
    /\ defaultUpstream = Null
    /\ matchHost = <<>>
    /\ matchResult = "none"
    /\ setupRoutes = <<>>
    /\ original = NoTable
    /\ tableCall = "none"
    /\ EngineIdle
    /\ connectRetryAttempts = 0
    /\ clients = 0
    /\ inPartition = [r \in Reqs |-> Undefined]
    /\ LogIdle
    /\ LifeIdle
    /\ CertIdle
    /\ BumpIdle
    /\ callerUpstream \in [Callers -> UpstreamObjects]
    /\ \A c, d \in Callers :
          [callerUpstream[c] EXCEPT !.password = "***"] =
          [callerUpstream[d] EXCEPT !.password = "***"]
    /\ connectionError = [c \in Callers |-> NoConnectionError]
    /\ StartIdle
    /\ LoopIdle
    /\ BridgeIdle
    /\ TunnelIdle

FailedStatuses == {407, 502}

DetailsNext ==
    \/ \E c \in Callers, status \in FailedStatuses : ConnectStatusFailed(c, status)
    \/ \E c \in Callers : ConnectRequestTimeout(c)
    \/ \E c \in Callers : DirectConnectTimeout(c)
    \/ \E c \in Callers, statusCode \in FailedStatuses : ConnectStatusFailedEarlier(c, statusCode)

SpecDetails == DetailsInit /\ [][DetailsNext]_vars

(***************************************************************************)
(* Properties.                                                             *)
(***************************************************************************)
Min(S) == CHOOSE x \in S : \A y \in S : x <= y

\* position of the first occurrence of e in seq, 0 when there is none
IndexOf(seq, e) ==
    IF \E k \in 1..Len(seq) : seq[k] = e
    THEN Min({k \in 1..Len(seq) : seq[k] = e})
    ELSE 0

Count(seq, e) == Cardinality({k \in 1..Len(seq) : seq[k] = e})

\* the indexes of the routes whose pattern matches host; a pattern that
\* does not compile matches nothing
MatchingRoutes(rs, host) ==
    {k \in 1..Len(rs) : Compiles(rs[k].hostPattern) /\ RegExpTest(rs[k].hostPattern, host)}

FirstMatchUpstream(rs, dflt, host) ==
    IF MatchingRoutes(rs, host) = {} THEN dflt
    ELSE rs[Min(MatchingRoutes(rs, host))].upstream

\* C1: for every route list and every host, matchRoute(host) is the upstream
\* (possibly null) of the lowest-index route whose hostPattern matches host
\* case-insensitively, and defaultUpstream when no route matches.
C1_FirstMatchWins ==
    matchResult # "none" =>
        matchResult = FirstMatchUpstream(routes, defaultUpstream, matchHost)

\* On tables of which every pattern up to the first match compiles, the
\* first matching route decides, a null upstream included.
FirstMatchWinsWhenCompiled ==
    (matchResult # "none" /\ matchResult # SyntaxError) =>
        matchResult = FirstMatchUpstream(routes, defaultUpstream, matchHost)

\* the outbound socket of attempt i of request r was established and has
\* not been closed or destroyed
StillOpen(r, i) == att[r][i] = "ok" /\ sock[r][i] = "open"

Returned(r, i) == promise[r] = "resolved" /\ promiseVal[r] = i

\* C2: the promise of sslConnectWithRetry resolves with the connection of
\* the first attempt whose outbound connect succeeds (and with no other).
C2_FirstSuccessWins ==
    \A r \in Reqs : firstSucc[r] # -1 => Returned(r, firstSucc[r])

\* C3: once all started attempts have completed, no established outbound
\* socket other than that of the returned connection remains open.
C3_LosersDestroyed ==
    \A r \in Reqs :
        (\A i \in Attempts : att[r][i] # "inflight") =>
            \A i \in Attempts : StillOpen(r, i) => Returned(r, i)

\* C4: sslConnectWithRetry rejects only when every one of the
\* connectRetryAttempts + 1 attempts has completed unsuccessfully, and then
\* with the error of the attempt that failed last.
C4_RejectOnlyWhenAllFailed ==
    \A r \in Reqs :
        promise[r] = "rejected" =>
            /\ \A i \in 0..connectRetryAttempts : att[r][i] = "failed"
            /\ promiseVal[r] = lastFail[r]

\* C5: outboundConnect is emitted once per started attempt, with attempt
\* numbers 0, 1, 2, ... in order, at most connectRetryAttempts + 1 times, and
\* exactly connectRetryAttempts + 1 times when the CONNECT failed because no
\* attempt succeeded; timers are only ever cancelled by a successful attempt.
C5_OutboundConnectEvents ==
    \A r \in Reqs :
        /\ emitted[r] = [k \in 1..Len(emitted[r]) |-> k - 1]
        /\ Len(emitted[r]) = Cardinality({i \in Attempts : att[r][i] # "idle"})
        /\ Len(emitted[r]) <= connectRetryAttempts + 1
        /\ Count(events[r], "outboundConnect") = Len(emitted[r])
        /\ promise[r] = "rejected" => Len(emitted[r]) = connectRetryAttempts + 1
        /\ (promise[r] \in {"pending", "rejected"} /\ firstSucc[r] = -1
              /\ \A i \in Attempts : att[r][i] # "inflight" /\ timers[r][i] # "armed")
           => Len(emitted[r]) = connectRetryAttempts + 1

C5_Witness ==
    \E r \in Reqs :
        /\ connectRetryAttempts = 1
        /\ promise[r] = "rejected"
        /\ firstSucc[r] = -1
        /\ emitted[r] = <<0, 1>>

\* C6: a connection returned by createSslConnection is found in
\* trackedConnections under its connectionId from the moment it is
\* established until its own socket closes.
C6_TrackedUntilClose ==
    \A r \in Reqs :
        (promise[r] = "resolved" /\ sock[r][promiseVal[r]] # "closed") =>
            /\ connId[r] \in DOMAIN trackedConnections
            /\ trackedConnections[connId[r]] = <<r, promiseVal[r]>>

\* C7: every Connection stored in trackedConnections is stored under its own
\* connectionId and has a socket whose 'close' event has not happened yet, so
\* after the close of a tracked socket the map no longer holds its connection.
C7_TrackedAreOpen ==
    \A id \in DOMAIN trackedConnections :
        LET c == trackedConnections[id]
        IN  /\ Returned(c[1], c[2])
            /\ connId[c[1]] = id
            /\ sock[c[1]][c[2]] \in {"open", "destroyed"}

C7_Witness ==
    \E r1, r2 \in Reqs :
        /\ r1 # r2
        /\ promise[r1] = "resolved" /\ sock[r1][promiseVal[r1]] = "closed"
        /\ promise[r2] = "resolved" /\ sock[r2][promiseVal[r2]] = "open"
        /\ DOMAIN trackedConnections = {connId[r2]}

C9_ReplyAfterTracking ==
    \A r \in Reqs :
        kind[r] = "CONNECT" =>
            LET e == events[r]
            IN  /\ IndexOf(e, "reply200") > 0 =>
                      /\ 0 < IndexOf(e, "authenticate")
                      /\ IndexOf(e, "authenticate") < IndexOf(e, "matchRoute")
                      /\ IndexOf(e, "matchRoute") < IndexOf(e, "outboundConnect")
                      /\ IndexOf(e, "outboundConnect") < IndexOf(e, "connected")
                      /\ IndexOf(e, "connected") < IndexOf(e, "track")
                      /\ IndexOf(e, "track") < IndexOf(e, "reply200")
                      /\ promise[r] = "resolved"
                /\ (\E k \in 1..Len(clientOut[r]) : clientOut[r][k][1] = 200)
                      => IndexOf(e, "reply200") > 0
                /\ promise[r] = "rejected" =>
                      /\ IndexOf(e, "reply200") = 0
                      /\ \A k \in 1..Len(clientOut[r]) : clientOut[r][k][1] # 200

C9_Witness ==
    \E r1, r2 \in Reqs :
        /\ kind[r1] = "CONNECT" /\ IndexOf(events[r1], "reply200") > 0
        /\ clientOut[r1][1][1] = 200
        /\ kind[r2] = "CONNECT" /\ promise[r2] = "rejected"
        /\ att[r2][0] = "ok"
        /\ clientOut[r2] = << <<502, NoId>> >>

\* C10: authenticate is invoked exactly once per inbound request, before
\* matchRoute and before any outbound connect attempt, on the CONNECT and on
\* the HTTP path; when it throws, no outboundConnect is emitted and the
\* client is sent the error's status, or 502 when the error carries none.
C10_AuthenticateFirst ==
    \A r \in Reqs :
        /\ pc[r] # "new" =>
              /\ events[r][1] = "authenticate"
              /\ Count(events[r], "authenticate") = 1
        /\ authErr[r] # NoError =>
              /\ emitted[r] = <<>>
              /\ \A i \in Attempts : att[r][i] = "idle"
              /\ IndexOf(events[r], "matchRoute") = 0
              /\ clientOut[r] =
                    << <<IF authErr[r][2] = NoStatus THEN 502 ELSE authErr[r][2], NoId>> >>

C10_Witness ==
    \E r1, r2 \in Reqs :
        /\ kind[r1] = "CONNECT" /\ authErr[r1] = <<"Error", 401>>
        /\ clientOut[r1] = << <<401, NoId>> >>
        /\ kind[r2] = "HTTP" /\ authErr[r2] = <<"Error", NoStatus>>
        /\ clientOut[r2] = << <<502, NoId>> >>

\* C11: an outbound CONNECT the upstream answered with a status s >= 400
\* has failed with ProxyConnectionFailed carrying s; when the promise of
\* sslConnectWithRetry was rejected with that error, the client was sent
\* exactly one status line, with status s, and no 200.
C11_UpstreamStatusRelayed ==
    \A r \in Reqs :
        /\ \A i \in Attempts :
              /\ upStatus[r][i] >= 400 =>
                    /\ att[r][i] = "failed"
                    /\ attErr[r][i] = <<"ProxyConnectionFailed", upStatus[r][i]>>
              /\ attErr[r][i][1] = "ProxyConnectionFailed" =>
                    upStatus[r][i] = attErr[r][i][2] /\ upStatus[r][i] >= 400
        /\ (promise[r] = "rejected" /\ rejectErr[r][1] = "ProxyConnectionFailed") =>
              /\ rejectErr[r] = attErr[r][promiseVal[r]]
              /\ clientOut[r] = << <<rejectErr[r][2], NoId>> >>
              /\ IndexOf(events[r], "reply200") = 0

C11_Witness ==
    \E r \in Reqs :
        /\ connectRetryAttempts = 1
        /\ upStatus[r][1] = 407
        /\ promise[r] = "rejected"
        /\ rejectErr[r] = <<"ProxyConnectionFailed", 407>>
        /\ clientOut[r] = << <<407, NoId>> >>

RECURSIVE ExpectedLog(_, _, _)
\* the log the classification rule asks for, given the errors reported
ExpectedLog(errs, mute, warn) ==
    IF errs = <<>> THEN <<>>
    ELSE LET code == errs[Len(errs)]
             before == ExpectedLog(SubSeq(errs, 1, Len(errs) - 1), mute, warn)
         IN  IF code \in mute THEN before
             ELSE Append(before, <<IF code \in warn THEN "warn" ELSE "error", code>>)

\* C14: an error whose code is in muteErrorCodes is not logged, also when
\* the code is in warnErrorCodes as well; every other error is logged
\* exactly once, at warn level when its code is in warnErrorCodes and at
\* error level otherwise, an error without code included.
C14_ErrorClassification ==
    logged = ExpectedLog(errors, muteErrorCodes, warnErrorCodes)

C14_Witness ==
    /\ "EPIPE" \in muteErrorCodes \cap warnErrorCodes
    /\ "ENOTCONN" \in warnErrorCodes \ muteErrorCodes
    /\ errors = <<"EPIPE", "ENOTCONN", Undefined>>
    /\ logged = << <<"warn", "ENOTCONN">>, <<"error", Undefined>> >>

\* the inbound socket of request r has connected and has not closed
Connected(r) == pc[r] # "new" /\ clientSock[r] # "closed"

\* C15: clientSockets holds exactly the inbound sockets that have connected
\* and not closed; a call shutdown(true) leaves every such socket destroyed,
\* a call shutdown() or shutdown(false) changes the state of none, and after
\* either call isRunning() is false.
C15_ShutdownClosesSockets ==
    [][/\ clientSockets' = {r \in Reqs : Connected(r)'}
       /\ shutdownForce' # "none" => ~isRunning'
       /\ shutdownForce' # shutdownForce =>
             IF shutdownForce' = "forced"
             THEN \A r \in Reqs : Connected(r) => clientSock'[r] = "destroyed"
             ELSE clientSock' = clientSock]_vars

C15_Witness ==
    \E r1, r2 \in Reqs :
        /\ shutdownForce = "forced"
        /\ ~isRunning
        /\ pc[r1] = "connecting" /\ clientSock[r1] = "destroyed"
        /\ pc[r2] = "forwarding" /\ clientSock[r2] = "destroyed"
        /\ clientSockets = {r1, r2}

\* an attempt whose outbound CONNECT request was created
IsRequest(headers) == DOMAIN headers # {}

\* C16: every outbound CONNECT request made for an inbound CONNECT that
\* carries X-Partition-Id = p carries X-Partition-Id = p, the requests of
\* hedged attempts included, and the Connection handed to onConnect has
\* partitionId = p; without the inbound header no request carries the
\* header and the Connection has no partitionId.
C16_PartitionIdPropagated ==
    \A r \in Reqs :
        /\ \A i \in Attempts :
              /\ (att[r][i] # "idle" /\ upstream[r] # Null) => IsRequest(outHeaders[r][i])
              /\ IsRequest(outHeaders[r][i]) =>
                    IF inPartition[r] \in PartitionIds
                    THEN /\ "x-partition-id" \in DOMAIN outHeaders[r][i]
                         /\ outHeaders[r][i]["x-partition-id"] = inPartition[r]
                    ELSE "x-partition-id" \notin DOMAIN outHeaders[r][i]
        /\ promise[r] = "resolved" => connPartition[r] = inPartition[r]

C16_Witness ==
    \E r \in Reqs :
        /\ inPartition[r] = "p1"
        /\ connectRetryAttempts = 1
        /\ upstream[r] = "upA"
        /\ att[r][0] = "failed"
        /\ outHeaders[r][0]["x-partition-id"] = "p1"
        /\ Returned(r, 1)
        /\ outHeaders[r][1]["x-partition-id"] = "p1"
        /\ connPartition[r] = "p1"
        /\ connId[r] \in DOMAIN trackedConnections
        /\ trackedConnections[connId[r]] = <<r, 1>>

Entries(cache) == {cache[i] : i \in 1..Len(cache)}

\* keys of the entries of a cache
Keys(cache) == {cache[i].key : i \in 1..Len(cache)}

\* the entries of a cache that are not older than maxAge at time t
LiveEntries(cache, t) ==
    {cache[i] : i \in {j \in 1..Len(cache) : t - cache[j].now <= certTtlDays * DAY - HOUR}}

\* a hostname without its first label
RECURSIVE DropFirstLabel(_)
DropFirstLabel(h) ==
    IF h = <<>> THEN <<>>
    ELSE IF Head(h) = "." THEN Tail(h)
    ELSE DropFirstLabel(Tail(h))

\* the cached certificate of a key that is not expired, NoCert without one
LiveCert(k) ==
    IF \E e \in LiveEntries(certPemCache, now) : e.key = k
    THEN (CHOOSE e \in LiveEntries(certPemCache, now) : e.key = k).value
    ELSE NoCert

\* the step is a call getCertificate(h)
IsGetCertificate(h) == calls' = calls + 1 /\ hostname' = h

\* the keys left in the cache after the lookups of a call getCertificate(h)
\* that misses: an expired entry that was looked up is deleted
AfterLookups(h) ==
    Keys(certPemCache) \ {k \in {h, DropFirstLabel(h)} : LiveCert(k) = NoCert}

C19_ExactThenParent ==
    [][\A h \in CertHostnames :
          IsGetCertificate(h) =>
             IF LiveCert(h) # NoCert
             THEN lookups' = <<h>> /\ ret' = LiveCert(h)
             ELSE /\ lookups' = <<h, DropFirstLabel(h)>>
                  /\ LiveCert(DropFirstLabel(h)) # NoCert =>
                        /\ ret' = LiveCert(DropFirstLabel(h))
                        /\ issued' = issued
                        /\ now' = now
                        /\ LiveEntries(certPemCache', now') = LiveEntries(certPemCache, now)
                        /\ h \notin Keys(certPemCache) =>
                              Entries(certPemCache') = Entries(certPemCache)]_vars

C19_Witness ==
    /\ calls = 2
    /\ hostname = <<"a", ".", "b">>
    /\ lookups = <<hostname, <<"b">>>>
    /\ Len(issued) = 1
    /\ issued[1].hostname = <<"b">>
    /\ ret = issued[1].pem
    /\ Keys(certPemCache) = {<<"b">>}

\* C20: a call getCertificate(hostname) that finds an unexpired certificate
\* neither for the hostname nor for its parent domain mints one certificate,
\* emits one certificateIssued event with it, stores it under the hostname
\* and returns it; the next call for the same hostname, the entry of the
\* returned certificate being still cached and unexpired, returns the same
\* certificate and emits no event.
C20_MintOncePerMiss ==
    [][\A h \in CertHostnames :
          IsGetCertificate(h) =>
             /\ (LiveCert(h) = NoCert /\ LiveCert(DropFirstLabel(h)) = NoCert) =>
                    /\ Len(issued') = Len(issued) + 1
                    /\ SubSeq(issued', 1, Len(issued)) = issued
                    /\ issued'[Len(issued')] = [hostname |-> h, pem |-> ret']
                    /\ \A i \in 1..Len(issued) : issued[i].pem # ret'
                    /\ \E i \in 1..Len(certPemCache') :
                          certPemCache'[i].key = h /\ certPemCache'[i].value = ret'
             /\ (calls > 0 /\ hostname = h
                    /\ \E e \in LiveEntries(certPemCache, now) : e.value = ret) =>
                    ret' = ret /\ issued' = issued]_vars

C20_Witness ==
    /\ calls = 2
    /\ ticks = 1
    /\ hostname = <<"a", ".", "b">>
    /\ Len(issued) = 1
    /\ issued[1] = [hostname |-> hostname, pem |-> ret]
    /\ Len(certPemCache) = 1
    /\ certPemCache[1].key = hostname
    /\ certPemCache[1].value = ret

\* a cached certificate older than maxAge is never returned, and reading an
\* entry does not make it younger
ExpiredNeverReturned ==
    [][/\ \A h \in CertHostnames :
             (IsGetCertificate(h) /\ issued' = issued) =>
                \E e \in LiveEntries(certPemCache, now) : e.value = ret'
       /\ \A e \in Entries(certPemCache) : \A f \in Entries(certPemCache') :
             f.value = e.value => f.now = e.now]_vars

\* C21: a call getCertificate returns a cached certificate only while its
\* entry is not older than certTtlDays*24h - 1h, however often the entry
\* was read, and every certificate a call returns is, at the time of the
\* return, at least one hour before its notAfter.
C21_ReturnedBeforeExpiry ==
    [][\A h \in CertHostnames :
          IsGetCertificate(h) =>
             /\ issued' = issued =>
                   \E e \in LiveEntries(certPemCache, now) : e.value = ret'
             /\ ret'.notAfter - now' >= HOUR]_vars

\* C22: every certificate minted for a hostname has the hostname and
\* *.hostname among its SANs, the CA's subject as issuer, and a validity
\* notAfter - notBefore of at most (certTtlDays+1)*24h.
C22_CertificateFields ==
    \A i \in 1..Len(issued) :
        LET cert == issued[i].pem
            h == issued[i].hostname
        IN  /\ \E j \in 1..Len(cert.altNames) : cert.altNames[j] = h
            /\ \E j \in 1..Len(cert.altNames) : cert.altNames[j] = <<"*", ".">> \o h
            /\ cert.issuer = "caCert.subject"
            /\ cert.notAfter - cert.notBefore <= (certTtlDays + 1) * 24 * HOUR

\* what a bumped CONNECT did, as a set
BumpDid(r) == {bumpEvents[r][i] : i \in 1..Len(bumpEvents[r])}

\* the status lines the client of a bumped CONNECT received
BumpStatuses(r) == {bumpOut[r][i][1] : i \in 1..Len(bumpOut[r])}

PreBridgeFailureReplied ==
    \A r \in Reqs :
        (bumpPc[r] = "failed" /\ "handleTls" \notin BumpDid(r)) =>
            /\ bumpOut[r] = <<<<StatusOr502(bumpErr[r][2]), NoId>>>>
            /\ SubSeq(bumpEvents[r], Len(bumpEvents[r]) - 2, Len(bumpEvents[r]))
                  = <<"writeStatus", "end", "destroy">>
            /\ bumpSock[r] = "destroyed"

\* C24: a bumped CONNECT that fails before the bridge is up (in routing, in
\* the outbound connect, in the outbound TLS negotiation) is answered with
\* the status of the error, or 502, on the inbound socket, which is then
\* ended and destroyed; the status line is written before the inbound socket
\* has been wrapped in server-side TLS.
C24_StatusOnPlainSocket ==
    \A r \in Reqs :
        (bumpPc[r] = "failed" /\ "handleTls" \notin BumpDid(r)) =>
            /\ bumpOut[r] = <<<<StatusOr502(bumpErr[r][2]), NoId>>>>
            /\ SubSeq(bumpEvents[r], Len(bumpEvents[r]) - 2, Len(bumpEvents[r]))
                  = <<"writeStatus", "end", "destroy">>
            /\ bumpSock[r] = "destroyed"
            /\ "bumpClientSocket" \notin BumpDid(r)

\* the step is a call insertRoute({label, hostPattern, upstream}, index)
IsInsertRoute(ls, p, u, index) == insertRoute(ls, p, u, index)

\* s without its element k
Omit(s, k) == SubSeq(s, 1, k - 1) \o SubSeq(s, k + 1, Len(s))

Labels(rs) == {rs[k].label : k \in 1..Len(rs)}

\* the step is a call removeRoutes(label)
IsRemoveRoutes(label) == removeRoutes(label)

\* a route inserted with no label property is stored with label "default",
\* and removeRoutes("default") leaves no route with that label
AbsentLabelDefaults ==
    [][/\ \A p \in HostPatterns, u \in UpstreamOrNull, index \in -1..MaxRoutes :
             IsInsertRoute("absent", p, u, index) =>
                \E k \in 1..Len(routes') :
                   /\ routes'[k] = [label |-> "default", hostPattern |-> p, upstream |-> u]
                   /\ Omit(routes', k) = routes
       /\ IsRemoveRoutes("default") => "default" \notin Labels(routes')]_vars

\* C26: every stored route has a string label; a route inserted without a
\* label, or with label explicitly undefined, is stored with label
\* "default", and removeRoutes("default") removes it: what it leaves are
\* routes that were inserted with a label of their own.
C26_LabelDefaults ==
    [][/\ Undefined \notin Labels(routes')
       /\ \A ls \in {"absent", Undefined}, p \in HostPatterns, u \in UpstreamOrNull,
             index \in -1..MaxRoutes :
             IsInsertRoute(ls, p, u, index) =>
                \E k \in 1..Len(routes') :
                   /\ routes'[k] = [label |-> "default", hostPattern |-> p, upstream |-> u]
                   /\ Omit(routes', k) = routes
       /\ IsRemoveRoutes("default") => Labels(routes') \subseteq {"x"}]_vars

\* C27: every hostPattern in the routing table compiles; a call of
\* insertRoute with a pattern that does not compile leaves the table as it
\* was, and no call of matchRoute throws.
C27_PatternsCompile ==
    [][/\ \A k \in 1..Len(routes') : Compiles(routes'[k].hostPattern)
       /\ \A ls \in LabelSpecs, p \in HostPatterns, u \in UpstreamOrNull, index \in -1..MaxRoutes :
             (IsInsertRoute(ls, p, u, index) /\ ~Compiles(p)) => routes' = routes
       /\ matchResult' # SyntaxError]_vars

\* the step is a call clearRoutes()
IsClearRoutes == clearRoutes

\* the step is a call matchRoute(host)
IsMatchRoute(host) == MatchRouteCall(host)

IsBeforeEach == BeforeEach

TimedOut(r, i) ==
    att[r][i] = "failed" /\ attErr[r][i] = <<"ProxyConnectionTimeout", NoStatus>>

\* an outbound connect through an upstream that is not established within
\* connectTimeout fails with ProxyConnectionTimeout, and none stays pending
UpstreamAttemptsTimeOut ==
    /\ [](\A r \in Reqs, i \in Attempts :
             (upstream[r] # Null /\ elapsed[r][i]) => TimedOut(r, i))
    /\ \A r \in Reqs, i \in Attempts :
          (upstream[r] # Null /\ att[r][i] = "inflight") ~> (att[r][i] # "inflight")

\* C30: every outbound connect attempt, through an upstream or direct, that
\* has not been established when connectTimeout has passed fails with
\* ProxyConnectionTimeout, and so no attempt stays pending for ever.
C30_AttemptsTimeOut ==
    /\ [](\A r \in Reqs, i \in Attempts : elapsed[r][i] => TimedOut(r, i))
    /\ \A r \in Reqs, i \in Attempts :
          (att[r][i] = "inflight") ~> (att[r][i] # "inflight")

\* positions of the routes of a table that do not carry a label
Kept(rs, label) == {k \in 1..Len(rs) : rs[k].label # label}

\* the j-th smallest of a set of positions
Nth(positions, j) == CHOOSE k \in positions : Cardinality({m \in positions : m < k}) = j - 1

C33_WinnerCancelsTimers ==
    [][\A r \in Reqs :
          /\ resolved'[r] => \A i \in Attempts : timers'[r][i] # "armed"
          /\ resolved[r] =>
                /\ emitted'[r] = emitted[r]
                /\ Count(events'[r], "outboundConnect") = Count(events[r], "outboundConnect")
                /\ \A i \in Attempts : att[r][i] = "idle" => att'[r][i] = "idle"]_vars

C33_Witness ==
    \E r \in Reqs :
        /\ connectRetryAttempts = 1
        /\ Returned(r, 0)
        /\ timers[r][1] = "cleared"
        /\ att[r][1] = "idle"
        /\ emitted[r] = <<0>>
        /\ pc[r] = "done"

\* C32: if every attempt that sslConnectWithRetry starts succeeds or fails
\* in the end, the promise it returned is resolved or rejected in the end;
\* and whenever all connectRetryAttempts + 1 attempts have failed, in
\* whatever order relative to the timers, the promise is rejected.
C32_RetryAlwaysSettles ==
    /\ (\A r \in Reqs, i \in Attempts : (att[r][i] = "inflight") ~> (att[r][i] # "inflight"))
          => \A r \in Reqs : (promise[r] = "pending") ~> (promise[r] # "pending")
    /\ [](\A r \in Reqs :
             (\A i \in 0..connectRetryAttempts : att[r][i] = "failed") =>
                 promise[r] = "rejected")

C32_Witness ==
    \E r \in Reqs :
        /\ connectRetryAttempts = 1
        /\ att[r][0] = "failed"
        /\ att[r][1] = "failed"
        /\ lastFail[r] = 0
        /\ promise[r] = "rejected"
        /\ promiseVal[r] = 1

\* a subjectAltName of type DNS matches a hostname: the same name, or a
\* wildcard whose "*" stands for the one, non-empty, first label
SanMatches(san, h) ==
    \/ san = h
    \/ /\ Len(san) >= 2 /\ SubSeq(san, 1, 2) = <<"*", ".">>
       /\ FirstDot(h) > 1
       /\ SubSeq(h, FirstDot(h) + 1, Len(h)) = SubSeq(san, 3, Len(san))

Covers(cert, h) == \E j \in 1..Len(cert.altNames) : SanMatches(cert.altNames[j], h)

\* a certificate returned for a hostname covers it, unless the hostname has
\* a single label and the certificate of the empty hostname is cached
CoveredUnlessEmptyParent ==
    [][\A h \in CertHostnames :
          (IsGetCertificate(h) /\ ~(FirstDot(h) = 0 /\ LiveCert(<<>>) # NoCert)) =>
              Covers(ret', h)]_vars

\* C39: every certificate returned by getCertificate(h) covers h through
\* its subjectAltNames, single-label hostnames included, also after a
\* certificate was minted for the empty hostname.
C39_ReturnedCovers ==
    [][\A h \in CertHostnames : IsGetCertificate(h) => Covers(ret', h)]_vars

\* matchRoute of the revision that compiles the pattern anew at each call
\* and of the revision that keeps RegExp objects without the g flag: a
\* call changes no routing state and repeats the answer of the call before
PureWithoutGlobalFlag ==
    [][\A host \in Hosts :
          (/\ matchHost' = host
           /\ \A k \in 1..Len(routes) :
                 "hostRegexp" \in DOMAIN routes[k] => "g" \notin routes[k].hostRegexp.flags) =>
              /\ routes' = routes
              /\ defaultUpstream' = defaultUpstream
              /\ matchHost = host => matchResult' = matchResult]_vars

\* C40: matchRoute is a pure function of the route table, defaultUpstream
\* and the host: a call changes no routing state, and two consecutive calls
\* with the same host on an unchanged table return the same upstream,
\* whatever flags the configured patterns carry.
C40_MatchRoutePure ==
    [][\A host \in Hosts :
          matchHost' = host =>
              /\ routes' = routes
              /\ defaultUpstream' = defaultUpstream
              /\ matchHost = host => matchResult' = matchResult]_vars

\* the errors of one class, built for the same status
SameConstruction(e, f) ==
    /\ e.name = f.name
    /\ e.name # "none"
    /\ DOMAIN e = DOMAIN f
    /\ "status" \in DOMAIN e => e.status = f.status
    /\ "cause" \in DOMAIN e => e.cause = f.cause
    /\ (e.details.upstream.host = Undefined) = (f.details.upstream.host = Undefined)

\* the errors of the revision whose constructors take the upstream: their
\* details show '***' for the password and agree between the two callers
MaskedByConstructor ==
    \A c, d \in Callers :
        (SameConstruction(connectionError[c], connectionError[d])
            /\ "cause" \notin DOMAIN connectionError[c]) =>
            /\ connectionError[c].details.upstream.password = "***"
            /\ connectionError[c].details = connectionError[d].details

\* constructing a connection error leaves the caller's upstream object as
\* it was
UpstreamObjectKept == [][callerUpstream' = callerUpstream]_vars

\* C38: the details of connection errors never expose the upstream
\* password: for two upstreams that differ only in the password the errors
\* carry identical details, the password reading '***'.
C38_DetailsHidePassword ==
    \A c, d \in Callers :
        SameConstruction(connectionError[c], connectionError[d]) =>
            /\ connectionError[c].details.upstream.password = "***"
            /\ connectionError[c].details = connectionError[d].details

\* between the moment start() resolves and the next call of shutdown() the
\* proxy is running on the bound port, when no server was still closing
\* at any call of start()
RunningUnlessOverlapped ==
    (startResolved /\ ~overlapped) => (isRunningRef /\ getServerPort = boundPort)

\* C37: after start() has resolved and until shutdown() is next called,
\* isRunning() is true and getServerPort() returns the bound port, also
\* when an earlier shutdown() had not finished closing its server when
\* start() was called.
C37_RunningAfterStart ==
    startResolved => (isRunningRef /\ getServerPort = boundPort)

\* a tunnel whose target host no other tunnel shares forwards its requests
\* over its own TLS socket
OwnSocketWhenHostUnshared ==
    \A t \in Reqs :
        (\A o \in Reqs \ {t} : loopHost[o] # loopHost[t]) =>
            \A k \in 1..Len(forwardedOver[t]) : forwardedOver[t][k].socket = t

\* C36: in the loopback design, with several bumped tunnels to the same
\* target host, each decrypted request is forwarded over the remote TLS
\* socket negotiated for its own tunnel, and the socket looked up in
\* remoteConnectionsMap is never one that was already closed.
C36_ForwardedOverOwnSocket ==
    \A t \in Reqs : \A k \in 1..Len(forwardedOver[t]) :
        /\ forwardedOver[t][k].socket = t
        /\ forwardedOver[t][k].state = "open"

\* the step is the 'close' of the TLS socket of one side of tunnel r
IsSocketClose(r, side) == TlsSocketClose(r, side)

\* when a TLS socket of a bumped tunnel closes, the write side of the other
\* is ended unless that one is destroyed already
OtherEndedOnClose ==
    [][\A r \in Reqs, side \in Sides :
          (IsSocketClose(r, side) /\ ~tlsSockets[r][Other(side)].destroyed) =>
              tlsSockets'[r][Other(side)].writable = "ended"]_vars

\* once one TLS socket of a tunnel has closed, both are closed in the end
BothClosedInTheEnd ==
    \A r \in Reqs :
        (\E side \in Sides : tlsSockets[r][side].closed) ~>
            (\A side \in Sides : tlsSockets[r][side].closed)

\* the peer of a socket whose write side was ended finishes or resets its
\* own direction in the end
PeersAnswer ==
    \A r \in Reqs, side \in Sides :
        (tlsSockets[r][side].writable = "ended") ~>
            (tlsSockets[r][side].readable = "ended" \/ tlsSockets[r][side].destroyed)

\* with peers that answer, a tunnel one of whose TLS sockets has closed
\* ends with both closed
ClosedWhenPeersAnswer == PeersAnswer => BothClosedInTheEnd

\* C35: in a bumped tunnel, when either TLS socket closes, the write side
\* of the other is ended unless it is already destroyed, and eventually
\* both TLS sockets are closed: no bumped tunnel stays half-open forever.
C35_NoHalfOpenTunnel ==
    /\ [][\A r \in Reqs, side \in Sides :
             (IsSocketClose(r, side) /\ ~tlsSockets[r][Other(side)].destroyed) =>
                 tlsSockets'[r][Other(side)].writable = "ended"]_vars
    /\ \A r \in Reqs :
          (\E side \in Sides : tlsSockets[r][side].closed) ~>
              (\A side \in Sides : tlsSockets[r][side].closed)

IsPrefix(a, b) == Len(a) <= Len(b) /\ SubSeq(b, 1, Len(a)) = a

====
